---- MODULE Spec2Model ----
(***************************************************************************)
(* Model of the CUDA interoperability layer of the message-passing runtime *)
(* (ompi/mca/common/cuda/common_cuda.c): lazy initialization, deferred     *)
(* host-memory registration, and the three circular completion-event pools *)
(* (IPC, device-to-host, host-to-device).                                  *)
(*                                                                         *)
(* The CUDA driver is the environment: every driver call's result is an    *)
(* input of the action that makes the call, and events complete through    *)
(* the separate action cuEventCompletes.                                   *)
(***************************************************************************)
EXTENDS Integers, Naturals, Sequences, FiniteSets, TLC

(***************************************************************************)
(* Bounds of the model.                                                    *)
(***************************************************************************)
\* capacity of each event pool (the MCA parameter event_max, 200 by default)
cuda_event_max == 2
\* number of copies posted to the pools over one behaviour
MaxRecords == 3
\* number of registration requests over one behaviour
MaxRequests == 3
\* number of distinct host pointers handed to register/unregister
NumPtrs == 2
\* number of registrations on the owner's side and on the peer's side
NumRegs == 2
\* number of writes the owner issues to its device memory over one behaviour
MaxWrites == 2
\* number of uGNI modules of the component (ugni_num_btls)
NumBtls == 2
\* number of RDMA fragments a behaviour posts
NumFrags == 2
\* number of endpoints of a module
NumEps == 2
\* number of messages that can wait in a mailbox or completion queue
MaxMsgs == 2
\* value given to the MCA parameter rdma_max_retries (default 16)
rdma_max_retries == 2
NumHandles == 2
MaxSamples == 2

(***************************************************************************)
(* Values.                                                                 *)
(***************************************************************************)
Dirs == {"ipc", "dtoh", "htod"}
Slots == 0 .. (cuda_event_max - 1)
Ptrs == 1 .. NumPtrs
\* a region is the (ptr, amount) pair of one registration request
Regions == [ptr : Ptrs, amount : {4096}]
\* fragment descriptors are identified by positive integers
NULL == 0
\* content of a malloc'ed frag slot that was never written
Uninit == -1
\* the frag array pointer itself is NULL
Unalloc == -2

\* position of a pool in the set-up order of mca_common_cuda_init
PoolOrder(d) == CASE d = "ipc" -> 1 [] d = "dtoh" -> 2 [] d = "htod" -> 3

\* places where mca_common_cuda_init can fail once it has a context: in the
\* set-up of one pool (a malloc or a cuEventCreate fails) or in the creation
\* of a stream; "none" is the run without failure
FailPoints == {[at |-> "none", dir |-> "ipc"], [at |-> "stream", dir |-> "ipc"]}
              \cup [at : {"setup"}, dir : Dirs]

\* the registrations of memory that is exchanged between processes
RegIds == 1 .. NumRegs
\* the events of the driver: each registration is constructed with one
EventIds == 1 .. NumRegs
\* the device allocations of the owner: base address and size in bytes
Allocations == {[base |-> 16, size |-> 2], [base |-> 32, size |-> 3]}
\* the device pointers: every address inside an allocation
DevicePtrs == UNION {a.base .. (a.base + a.size - 1) : a \in Allocations}
\* state of a driver event that does not exist / was never recorded
NotCreated == -2
NeverRecorded == -1

\* the modules of the uGNI component, the fragments and the endpoints
Btls == 1 .. NumBtls
Frags == 1 .. NumFrags
Eps == 1 .. NumEps
\* return codes
OMPI_SUCCESS == 0
OMPI_ERROR == -1
\* the stages of one module in mca_btl_ugni_component_progress, in the order
\* of the calls
Stages == <<"retry_failed", "progress_wait_list", "progress_datagram",
            "progress_local_smsg", "progress_remote_smsg", "progress_rdma">>

VARIABLES
    ompi_mpi_cuda_support,              \* runtime switch read by init
    mca_params,                         \* values the user gave the MCA parameters
    registered,                         \* static flag of register_mca_variables
    common_cuda_initialized,
    common_cuda_init_function_added,
    mca_common_cuda_enabled,
    mca_common_cuda_register_memory,
    mca_common_cuda_async,
    common_cuda_memory_registrations,   \* queue of delayed registrations
    num_requests,                       \* register calls made so far
    hostRegisterCalls,                  \* regions passed to cuMemHostRegister, in order
    pinned,                             \* pointers the driver holds registered
    cuda_event_array,                   \* per pool: state of each event
    cuda_event_frag_array,              \* per pool: frag bound to each slot
    cuda_event_first_avail,
    cuda_event_first_used,
    cuda_event_num_used,
    recorded,                           \* per pool: frags stored in the pool, in order
    polled,                             \* per pool: frags taken out of the pool, in order
    pc,                                 \* "idle", "memcpy_wait" inside the sync copy loop,
                                        \* or "aborted" after a failed assertion
    last,                               \* the step taken last and what the call returned
    cuda_reg,                           \* owner: the registrations (mca_mpool_common_cuda_reg_t)
    rget_reg,                           \* peer: the registrations that hold a received handle
    cu_event,                           \* driver: per event, the work its last record captured
    peer_mapped,                        \* driver: owner allocations mapped into the peer
    issued,                             \* number of writes the owner issued to device memory
    completed,                          \* number of these writes that have completed
    export_mark,                        \* per registration: issued at its last successful export
    peer_barrier,                       \* writes the peer's NULL stream waits for
    ipc_call,                           \* arguments and driver results of the last IPC call
    frags,                              \* the RDMA fragments: state, module, tries, cbfunc
    callbacks,                          \* per fragment: statuses given to its completion callback
    rdma_local_cq,                      \* per module: fragments with a completion event queued
    failed_frags,                       \* per module: the list failed_frags
    ep_wait_list,                       \* per module: the list ep_wait_list
    wait_listed,                        \* per module and endpoint: the flag wait_listed
    ep_state,                           \* per module and endpoint: the connection state
    datagram,                           \* per module: the datagram that has completed, if any
    wildcard_posted,                    \* per module: the wildcard datagram is posted
    wait_failed,                        \* per module: the connecting endpoints whose
                                        \* datagram could not be collected (history)
    mailbox,                            \* per module and endpoint: messages waiting in the mailbox
    smsg_local_cq,                      \* per module: events in the local SMSG completion queue
    smsg_remote_cq,                     \* per module: events in the remote SMSG completion queue
    prog,                               \* position of mca_btl_ugni_component_progress
    ugni_call,                          \* what the last step of the uGNI component did
    component,                          \* mca_btl_ugni_component: limits, module table
    init_call,                          \* arguments and results of the component's
                                        \* register, open and init functions
    mpit,                               \* the tool interface: initialized, lock, session
    pvar_call                           \* arguments and results of the last MPI_T call

layer_vars == <<ompi_mpi_cuda_support, mca_params, registered, common_cuda_initialized,
                common_cuda_init_function_added, mca_common_cuda_enabled,
                mca_common_cuda_register_memory, mca_common_cuda_async>>
reg_vars == <<common_cuda_memory_registrations, num_requests, hostRegisterCalls, pinned>>
pool_vars == <<cuda_event_array, cuda_event_frag_array, cuda_event_first_avail,
               cuda_event_first_used, cuda_event_num_used>>
hist_vars == <<recorded, polled>>
ipc_vars == <<cuda_reg, rget_reg, cu_event, peer_mapped, issued, completed, export_mark,
              peer_barrier, ipc_call>>
ugni_vars == <<frags, callbacks, rdma_local_cq, failed_frags, ep_wait_list, wait_listed,
               ep_state, datagram, wildcard_posted, wait_failed, mailbox, smsg_local_cq,
               smsg_remote_cq,
               prog, ugni_call, component, init_call>>
mpit_vars == <<mpit, pvar_call>>
vars == <<layer_vars, reg_vars, pool_vars, hist_vars, pc, last, ipc_vars, ugni_vars,
          mpit_vars>>

\* the handle value that stands for every handle of the session
MPI_T_PVAR_ALL_HANDLES == 0
\* the handles a tool can bind in its session
Handles == 1..NumHandles

\* a variable as a handle sees it
NewPvar == [readonly |-> FALSE, value |-> 0]

\* the tool interface before MPI_T_init_thread, with an empty session
MpitStart ==
    /\ mpit = [initialized |-> FALSE, lock |-> 0, session |-> <<>>,
               pvar |-> [h \in Handles |-> NewPvar]]
    /\ pvar_call = [op |-> "none", handle |-> MPI_T_PVAR_ALL_HANDLES, rc |-> "none",
                    locked |-> 0, unlocked |-> 0, attempted |-> <<>>]

PvarCall(op, handle, rc, locked, unlocked, attempted) ==
    [op |-> op, handle |-> handle, rc |-> rc, locked |-> locked, unlocked |-> unlocked,
     attempted |-> attempted]


\* the record of one step: its name, the pool it works on, its return code,
\* the frag (*frag) and done flag (*done) it hands back, and the driver calls
\* it made
Call(op, dir, rc, frag, done, calls) ==
    [op |-> op, dir |-> dir, rc |-> rc, frag |-> frag, done |-> done, calls |-> calls]

\* a registration object before its constructor ran: no event, no handles
NewReg == [constructed |-> FALSE, event |-> NULL, evtHandle |-> NULL,
           base |-> NULL, bound |-> NULL, memHandle |-> NULL]

\* a registration of the peer that holds no handle: from is the owner's
\* registration the handles came from, waited the writes that had been
\* issued before the export the peer last waited for, blocked whether an
\* import of this registration was refused as already mapped
NewRgetReg == [memHandle |-> NULL, evtHandle |-> NULL, alloc_base |-> NULL,
               from |-> NULL, waited |-> -1, blocked |-> FALSE]

\* the arguments of an IPC call (pointer, registration) and the result of
\* each driver call it made
IpcCall(base, reg, results) == [base |-> base, reg |-> reg, results |-> results]
NoIpcCall == IpcCall(NULL, NULL, {})

\* a fragment on the free list
FreeFrag == [state |-> "free", btl |-> NULL, tries |-> 0, cbfunc |-> "none"]

\* no datagram has completed
NoDatagram == [id |-> "none", ep |-> NULL]

\* mca_btl_ugni_component_progress is not running
NotInProgress == [running |-> FALSE, i |-> 0, stage |-> 0, count |-> 0, advanced |-> 0,
                  visited |-> <<>>]

\* what a step of the uGNI component did: the module, the fragment or
\* endpoint it handled (for the return of the progress function: the number
\* of work items advanced), the value it returned, the status it gave to
\* the completion callback ("none": not called), whether it took an event
\* off a completion queue, whether it reposted the fragment, and what the
\* RDMA completion queue reported
UgniCall(btl, item, rc, cb, consumed, reposted) ==
    [btl |-> btl, item |-> item, rc |-> rc, cb |-> cb, consumed |-> consumed,
     reposted |-> reposted, event |-> "none"]
NoUgniCall == UgniCall(NULL, NULL, 0, "none", FALSE, FALSE)

\* the component after mca_btl_ugni_component_init: every module has empty
\* lists and queues, unconnected endpoints and its wildcard datagram posted
UgniModulesInit ==
    /\ frags = [f \in Frags |-> FreeFrag]
    /\ callbacks = [f \in Frags |-> <<>>]
    /\ rdma_local_cq = [b \in Btls |-> <<>>]
    /\ failed_frags = [b \in Btls |-> <<>>]
    /\ ep_wait_list = [b \in Btls |-> <<>>]
    /\ wait_listed = [b \in Btls |-> [e \in Eps |-> FALSE]]
    /\ ep_state = [b \in Btls |-> [e \in Eps |-> "UNCONNECTED"]]
    /\ datagram = [b \in Btls |-> NoDatagram]
    /\ wildcard_posted = [b \in Btls |-> TRUE]
    /\ wait_failed = [b \in Btls |-> {}]
    /\ mailbox = [b \in Btls |-> [e \in Eps |-> 0]]
    /\ smsg_local_cq = [b \in Btls |-> 0]
    /\ smsg_remote_cq = [b \in Btls |-> 0]
    /\ prog = NotInProgress
    /\ ugni_call = NoUgniCall

\* the component as the program is loaded: its static storage is zero
\* sizeof (mca_btl_ugni_send_frag_hdr_t), the header of a message in a mailbox
SendFragHdrSize == 16

ComponentLoaded ==
    [stage |-> "loaded", ugni_smsg_limit |-> 0, ugni_fma_limit |-> 0, ugni_num_btls |-> 0,
     modules |-> "NULL", initialized |-> {}, smsg_max_data |-> 0, btl_eager_limit |-> 0,
     btl_rdma_pipeline_send_length |-> 0]

\* the component after a successful mca_btl_ugni_component_init with the
\* default limits, a small job and NumBtls devices
ComponentReady ==
    [stage |-> "initialized", ugni_smsg_limit |-> 8192, ugni_fma_limit |-> 1024,
     ugni_num_btls |-> NumBtls, modules |-> "modules", initialized |-> Btls,
     smsg_max_data |-> 8192 - SendFragHdrSize,
     btl_eager_limit |-> 8192 - SendFragHdrSize,
     btl_rdma_pipeline_send_length |-> 8192 - SendFragHdrSize]

\* what a call of the component hands back: the limits configured when it
\* was entered, the job size and device count it found, the steps of
\* mca_btl_ugni_component_init that were set to fail, whether
\* mca_btl_ugni_smsg_setup ran, what was returned ("NULL" or the array
\* "base_modules" for mca_btl_ugni_component_init), *num_btl_modules
\* (Unset: not written) and the modules in the array returned
Unset == -1
ComponentCall(op, smsg, fma, nprocs, devices, faults, setup, rc, num, array) ==
    [op |-> op, smsg_limit |-> smsg, fma_limit |-> fma, nprocs |-> nprocs,
     devices |-> devices, faults |-> faults, setup |-> setup, rc |-> rc,
     num_btl_modules |-> num, base_modules |-> array]
NoComponentCall == ComponentCall("none", 0, 0, 0, 0, {}, FALSE, "none", Unset, <<>>)

UgniInit ==
    /\ UgniModulesInit
    /\ component = ComponentReady
    /\ init_call = ComponentCall("component_init", 0, 1024, 1, NumBtls, {}, TRUE, "base_modules",
                            NumBtls, [i \in 1..NumBtls |-> i])

Init ==
    /\ UgniInit
    /\ MpitStart
    /\ ompi_mpi_cuda_support \in BOOLEAN
    /\ mca_params \in [register_memory : BOOLEAN, memcpy_async : {0, 1}]
    /\ registered = FALSE
    /\ common_cuda_initialized = FALSE
    /\ common_cuda_init_function_added = FALSE
    /\ mca_common_cuda_enabled = FALSE
    /\ mca_common_cuda_register_memory = TRUE
    /\ mca_common_cuda_async = 1
    /\ common_cuda_memory_registrations = <<>>
    /\ num_requests = 0
    /\ hostRegisterCalls = <<>>
    /\ pinned = {}
    /\ cuda_event_array = [d \in Dirs |-> [i \in Slots |-> "null"]]
    /\ cuda_event_frag_array = [d \in Dirs |-> [i \in Slots |-> Unalloc]]
    /\ cuda_event_first_avail = [d \in Dirs |-> 0]
    /\ cuda_event_first_used = [d \in Dirs |-> 0]
    /\ cuda_event_num_used = [d \in Dirs |-> 0]
    /\ recorded = [d \in Dirs |-> <<>>]
    /\ polled = [d \in Dirs |-> <<>>]
    /\ pc = "idle"
    /\ last = Call("none", "none", "none", NULL, 0, {})
    /\ cuda_reg = [r \in RegIds |-> NewReg]
    /\ rget_reg = [p \in RegIds |-> NewRgetReg]
    /\ cu_event = [e \in EventIds |-> NotCreated]
    /\ peer_mapped = {}
    /\ issued = 0
    /\ completed = 0
    /\ export_mark = [r \in RegIds |-> -1]
    /\ peer_barrier = 0
    /\ ipc_call = NoIpcCall


(***************************************************************************)
(* mca_common_cuda_register_mca_variables: the first call gives every      *)
(* variable its default and lets the MCA system overwrite it with the      *)
(* user's value; later calls return at once.                               *)
(***************************************************************************)
RegisteredMemoryAfterRegistration ==
    IF registered THEN mca_common_cuda_register_memory ELSE mca_params.register_memory

AsyncAfterRegistration ==
    IF registered THEN mca_common_cuda_async ELSE mca_params.memcpy_async

mca_common_cuda_register_mca_variables ==
    /\ pc = "idle"
    /\ UNCHANGED <<ipc_vars, ugni_vars, mpit_vars>>
    /\ registered' = TRUE
    /\ mca_common_cuda_register_memory' = RegisteredMemoryAfterRegistration
    /\ mca_common_cuda_async' = AsyncAfterRegistration
    /\ last' = Call("register_mca_variables", "none", "SUCCESS", NULL, 0, {})
    /\ UNCHANGED <<ompi_mpi_cuda_support, mca_params, common_cuda_initialized,
                   common_cuda_init_function_added, mca_common_cuda_enabled>>
    /\ UNCHANGED <<reg_vars, pool_vars, hist_vars, pc>>

(***************************************************************************)
(* The driver's cuMemHostRegister: it fails for a pointer that is already  *)
(* registered and for the pointers in failing, the set the environment     *)
(* chooses for this call.                                                  *)
(***************************************************************************)
cuMemHostRegister(ptr, pin, failing) ==
    IF ptr \in pin \/ ptr \in failing THEN "ERROR" ELSE "SUCCESS"

\* the registered pointers after the delayed registrations in q were applied
\* in queue order, a failed one being skipped (init, lines 438-458)
RECURSIVE PinnedAfterDrain(_, _, _)
PinnedAfterDrain(q, pin, failing) ==
    IF q = <<>> THEN pin
    ELSE PinnedAfterDrain(Tail(q),
                          IF cuMemHostRegister(Head(q).ptr, pin, failing) = "SUCCESS"
                          THEN pin \cup {Head(q).ptr} ELSE pin,
                          failing)

\* (variant: the drain loop stops at the first registration that fails)
RECURSIVE DrainAttempts_stop(_, _, _)
DrainAttempts_stop(q, pin, failing) ==
    IF q = <<>> THEN <<>>
    ELSE IF cuMemHostRegister(Head(q).ptr, pin, failing) = "SUCCESS"
         THEN <<Head(q)>> \o DrainAttempts_stop(Tail(q), pin \cup {Head(q).ptr}, failing)
         ELSE <<Head(q)>>

\* (variant: a region that is queued twice is passed to the driver once)
RECURSIVE DrainAttempts_merge(_, _, _)
DrainAttempts_merge(q, pin, failing) ==
    IF q = <<>> THEN <<>>
    ELSE LET rest == DrainAttempts_merge(Tail(q), pin, failing)
         IN  IF \E i \in 1 .. Len(rest) : rest[i] = Head(q) THEN rest ELSE <<Head(q)>> \o rest

\* the regions the drain loop of init passes to cuMemHostRegister, in order:
\* one call for every element it removes from the queue (lines 438-458)
RECURSIVE DrainAttempts(_, _, _)
DrainAttempts(q, pin, failing) ==
    IF q = <<>> THEN <<>>
    ELSE <<Head(q)>> \o
         DrainAttempts(Tail(q),
                       IF cuMemHostRegister(Head(q).ptr, pin, failing) = "SUCCESS"
                       THEN pin \cup {Head(q).ptr} ELSE pin,
                       failing)

\* the driver calls behind a sequence of registration attempts
DrainCalls(attempts) == {<<"cuMemHostRegister", attempts[i].ptr>> : i \in 1 .. Len(attempts)}

(***************************************************************************)
(* Set-up of the three event pools in mca_common_cuda_init (lines 327-435):*)
(* ipc, then dtoh, then htod; each pool is reset, its events are created   *)
(* and its frag array is allocated.  fail names the pool whose set-up      *)
(* fails; nothing reads the arrays of that pool before a later init sets   *)
(* them up again, so they are left as NULL whichever of the three steps    *)
(* failed.                                                                 *)
(***************************************************************************)
SetupFails(fail) == fail.at = "setup"

\* pool d is reached by the set-up
SetupReaches(d, fail) == ~SetupFails(fail) \/ PoolOrder(d) <= PoolOrder(fail.dir)

\* pool d is set up completely
SetupCompletes(d, fail) == ~SetupFails(fail) \/ PoolOrder(d) < PoolOrder(fail.dir)

EventArrayAfterSetup(d, fail) ==
    IF ~SetupReaches(d, fail) THEN cuda_event_array[d]
    ELSE IF SetupCompletes(d, fail)
         THEN [i \in Slots |-> "complete"]
         ELSE [i \in Slots |-> "null"]

FragArrayAfterSetup(d, fail) ==
    IF ~SetupReaches(d, fail) THEN cuda_event_frag_array[d]
    ELSE IF SetupCompletes(d, fail)
         THEN [i \in Slots |-> Uninit]
         ELSE [i \in Slots |-> Unalloc]

CursorAfterSetup(cursor, d, fail) ==
    IF SetupReaches(d, fail) THEN 0 ELSE cursor[d]

(***************************************************************************)
(* mca_common_cuda_init (lines 253-490).  It is static and reaches the     *)
(* OPAL layer only through opal_cuda_add_initialization_function, which    *)
(* the first register call makes.  Inputs: load is the result of           *)
(* mca_common_cuda_load_libcuda, ctx the outcome of cuCtxGetCurrent, fail  *)
(* the step of the set-up that fails, failing the pointers whose driver    *)
(* registration fails.                                                     *)
(***************************************************************************)
CtxOutcomes == {"ERROR", "NULL", "VALID"}

mca_common_cuda_init(load, ctx, fail, failing) ==
    /\ pc = "idle"
    /\ UNCHANGED <<ipc_vars, ugni_vars, mpit_vars>>
    /\ common_cuda_init_function_added
    /\ UNCHANGED <<mca_params, common_cuda_init_function_added, num_requests, hist_vars, pc>>
    /\ IF ~ompi_mpi_cuda_support
       THEN /\ last' = Call("init", "none", "ERROR", NULL, 0, {})
            /\ UNCHANGED <<ompi_mpi_cuda_support, registered, common_cuda_initialized,
                           mca_common_cuda_enabled, mca_common_cuda_register_memory,
                           mca_common_cuda_async, common_cuda_memory_registrations,
                           hostRegisterCalls, pinned, pool_vars>>
       ELSE IF common_cuda_initialized
       THEN /\ last' = Call("init", "none", "SUCCESS", NULL, 0, {})
            /\ UNCHANGED <<ompi_mpi_cuda_support, registered, common_cuda_initialized,
                           mca_common_cuda_enabled, mca_common_cuda_register_memory,
                           mca_common_cuda_async, common_cuda_memory_registrations,
                           hostRegisterCalls, pinned, pool_vars>>
       ELSE /\ registered' = TRUE
            /\ mca_common_cuda_async' = AsyncAfterRegistration
            /\ IF load # 0
               THEN \* the library cannot be loaded: disable support
                    /\ common_cuda_initialized' = TRUE
                    /\ ompi_mpi_cuda_support' = FALSE
                    /\ mca_common_cuda_register_memory' = RegisteredMemoryAfterRegistration
                    /\ last' = Call("init", "none", "ERROR", NULL, 0, {})
                    /\ UNCHANGED <<mca_common_cuda_enabled, common_cuda_memory_registrations,
                                   hostRegisterCalls, pinned, pool_vars>>
               ELSE IF ctx # "VALID"
               THEN \* no context: disable registration of memory
                    /\ mca_common_cuda_enabled' = FALSE
                    /\ mca_common_cuda_register_memory' = FALSE
                    /\ last' = Call("init", "none", "ERROR", NULL, 0,
                                    {<<"cuCtxGetCurrent", 0>>})
                    /\ UNCHANGED <<ompi_mpi_cuda_support, common_cuda_initialized,
                                   common_cuda_memory_registrations,
                                   hostRegisterCalls, pinned, pool_vars>>
               ELSE /\ mca_common_cuda_enabled' = TRUE
                    /\ mca_common_cuda_register_memory' = RegisteredMemoryAfterRegistration
                    /\ cuda_event_array' =
                           [d \in Dirs |-> EventArrayAfterSetup(d, fail)]
                    /\ cuda_event_frag_array' =
                           [d \in Dirs |-> FragArrayAfterSetup(d, fail)]
                    /\ cuda_event_first_avail' =
                           [d \in Dirs |-> CursorAfterSetup(cuda_event_first_avail, d, fail)]
                    /\ cuda_event_first_used' =
                           [d \in Dirs |-> CursorAfterSetup(cuda_event_first_used, d, fail)]
                    /\ cuda_event_num_used' =
                           [d \in Dirs |-> CursorAfterSetup(cuda_event_num_used, d, fail)]
                    /\ UNCHANGED ompi_mpi_cuda_support
                    /\ IF SetupFails(fail)
                       THEN /\ last' = Call("init", "none", "ERROR", NULL, 0,
                                            {<<"cuCtxGetCurrent", 0>>, <<"cuEventCreate", 0>>})
                            /\ UNCHANGED <<common_cuda_initialized,
                                           common_cuda_memory_registrations,
                                           hostRegisterCalls, pinned>>
                       ELSE LET apply == RegisteredMemoryAfterRegistration
                                q == IF apply
                                     THEN DrainAttempts(common_cuda_memory_registrations,
                                                        pinned, failing)
                                     ELSE <<>>
                            IN  /\ common_cuda_memory_registrations' = <<>>
                                /\ hostRegisterCalls' = hostRegisterCalls \o q
                                /\ pinned' = PinnedAfterDrain(q, pinned, failing)
                                /\ common_cuda_initialized' = (fail.at # "stream")
                                /\ last' = Call("init", "none",
                                                IF fail.at = "stream" THEN "ERROR"
                                                ELSE "SUCCESS",
                                                NULL, 0,
                                                {<<"cuCtxGetCurrent", 0>>,
                                                 <<"cuEventCreate", 0>>,
                                                 <<"cuStreamCreate", 0>>}
                                                \cup (IF apply THEN DrainCalls(q) ELSE {}))

(***************************************************************************)
(* mca_common_cuda_register (lines 658-692).  failing is the set of        *)
(* pointers whose driver registration the environment lets fail.           *)
(***************************************************************************)
mca_common_cuda_register(r, failing) ==
    /\ pc = "idle"
    /\ UNCHANGED <<ipc_vars, ugni_vars, mpit_vars>>
    /\ num_requests < MaxRequests
    /\ num_requests' = num_requests + 1
    /\ UNCHANGED <<ompi_mpi_cuda_support, mca_params, registered, common_cuda_initialized,
                   mca_common_cuda_enabled, mca_common_cuda_register_memory,
                   mca_common_cuda_async, pool_vars, hist_vars, pc>>
    /\ IF ~common_cuda_initialized
       THEN /\ common_cuda_init_function_added' = TRUE
            /\ common_cuda_memory_registrations' =
                   Append(common_cuda_memory_registrations, r)
            /\ last' = Call("register", "none", "void", NULL, 0, {})
            /\ UNCHANGED <<hostRegisterCalls, pinned>>
       ELSE IF mca_common_cuda_enabled /\ mca_common_cuda_register_memory
       THEN /\ hostRegisterCalls' = Append(hostRegisterCalls, r)
            /\ pinned' = IF cuMemHostRegister(r.ptr, pinned, failing) = "SUCCESS"
                         THEN pinned \cup {r.ptr} ELSE pinned
            /\ last' = Call("register", "none", "void", NULL, 0,
                            {<<"cuMemHostRegister", r.ptr>>})
            /\ UNCHANGED <<common_cuda_init_function_added,
                           common_cuda_memory_registrations>>
       ELSE /\ last' = Call("register", "none", "void", NULL, 0, {})
            /\ UNCHANGED <<common_cuda_init_function_added,
                           common_cuda_memory_registrations, hostRegisterCalls, pinned>>

(***************************************************************************)
(* mca_common_cuda_unregister (lines 698-731).  The driver's               *)
(* cuMemHostUnregister succeeds exactly for a registered pointer.          *)
(***************************************************************************)
\* (variant: before initialization only the requests for the named pointer
\* are released)
mca_common_cuda_unregister_named(ptr) ==
    /\ pc = "idle"
    /\ UNCHANGED <<ipc_vars, ugni_vars, mpit_vars>>
    /\ UNCHANGED <<layer_vars, num_requests, hostRegisterCalls, pool_vars, hist_vars, pc>>
    /\ IF ~common_cuda_initialized
       THEN /\ common_cuda_memory_registrations' =
                   SelectSeq(common_cuda_memory_registrations, LAMBDA r : r.ptr # ptr)
            /\ last' = Call("unregister", "none", "void", NULL, 0, {})
            /\ UNCHANGED pinned
       ELSE IF mca_common_cuda_enabled /\ mca_common_cuda_register_memory
       THEN /\ pinned' = pinned \ {ptr}
            /\ last' = Call("unregister", "none", "void", NULL, 0,
                            {<<"cuMemHostUnregister", ptr>>})
            /\ UNCHANGED common_cuda_memory_registrations
       ELSE /\ last' = Call("unregister", "none", "void", NULL, 0, {})
            /\ UNCHANGED <<common_cuda_memory_registrations, pinned>>

mca_common_cuda_unregister(ptr) ==
    /\ pc = "idle"
    /\ UNCHANGED <<ipc_vars, ugni_vars, mpit_vars>>
    /\ UNCHANGED <<layer_vars, num_requests, hostRegisterCalls, pool_vars, hist_vars, pc>>
    /\ IF ~common_cuda_initialized
       THEN /\ common_cuda_memory_registrations' = <<>>
            /\ last' = Call("unregister", "none", "void", NULL, 0, {})
            /\ UNCHANGED pinned
       ELSE IF mca_common_cuda_enabled /\ mca_common_cuda_register_memory
       THEN /\ pinned' = pinned \ {ptr}
            /\ last' = Call("unregister", "none", "void", NULL, 0,
                            {<<"cuMemHostUnregister", ptr>>})
            /\ UNCHANGED common_cuda_memory_registrations
       ELSE /\ last' = Call("unregister", "none", "void", NULL, 0, {})
            /\ UNCHANGED <<common_cuda_memory_registrations, pinned>>


(***************************************************************************)
(* The event pools.                                                        *)
(***************************************************************************)
\* the value of *frag after a call that did not write it
Untouched == -3

\* (variant: the wrap-around test is off by one)
Bump_late(cursor) == IF cursor + 1 > cuda_event_max THEN 0 ELSE cursor + 1

\* cursor++ ; if (cursor >= cuda_event_max) cursor = 0
Bump(cursor) == IF cursor + 1 >= cuda_event_max THEN 0 ELSE cursor + 1

\* copies posted so far, over the three pools
NumRecorded == Len(recorded["ipc"]) + Len(recorded["dtoh"]) + Len(recorded["htod"])

\* descriptors are distinct objects and a posted one is not posted again:
\* the k-th descriptor stored in pool d
NextFrag(d) == 10 * PoolOrder(d) + Len(recorded[d]) + 1

\* results cuEventQuery can give for an event in state ev
QueryResults(ev) ==
    IF ev = "pending" THEN {"NOT_READY", "ERROR"} ELSE {"SUCCESS", "ERROR"}

DriverResults == {"SUCCESS", "ERROR"}

\* (variant: the room test never fires)
PoolFull_never(d) == FALSE

\* (variant: the room test fires one record too late)
PoolFull_late(d) == cuda_event_num_used[d] = cuda_event_max + 1

\* (variant: the room test looks at every pool)
PoolFull_any(d) == \E e \in Dirs : cuda_event_num_used[e] = cuda_event_max

\* the room test of a record call: cuda_event_X_num_used == cuda_event_max
PoolFull(d) == cuda_event_num_used[d] = cuda_event_max

\* (variant: a poll looks for a completed event behind a head that is not ready)
QuerySlot_scan(d) ==
    IF /\ cuda_event_array[d][cuda_event_first_used[d]] = "pending"
       /\ cuda_event_num_used[d] > 1
       /\ cuda_event_array[d][Bump(cuda_event_first_used[d])] = "complete"
    THEN Bump(cuda_event_first_used[d])
    ELSE cuda_event_first_used[d]

\* the slot a poll queries and reads: cuda_event_X_first_used
QuerySlot(d) == cuda_event_first_used[d]

\* the callers post copies only once the layer is up: before that the
\* event arrays are NULL pointers
LayerUp == common_cuda_initialized /\ mca_common_cuda_enabled

\* cuEventRecord on slot first_avail of pool d, store the frag, bump the
\* cursor and the count (lines 996-1009, 1090-1103, 1125-1138)
StoreEvent(d, frag) ==
    /\ cuda_event_array' =
           [cuda_event_array EXCEPT ![d][cuda_event_first_avail[d]] = "pending"]
    /\ cuda_event_frag_array' =
           [cuda_event_frag_array EXCEPT ![d][cuda_event_first_avail[d]] = frag]
    /\ cuda_event_first_avail' =
           [cuda_event_first_avail EXCEPT ![d] = Bump(cuda_event_first_avail[d])]
    /\ cuda_event_num_used' = [cuda_event_num_used EXCEPT ![d] = @ + 1]
    /\ recorded' = [recorded EXCEPT ![d] = Append(@, frag)]

\* (variant: first_used is bumped twice)
ReleaseHead_twice(d) ==
    /\ cuda_event_num_used' = [cuda_event_num_used EXCEPT ![d] = @ - 1]
    /\ cuda_event_first_used' =
           [cuda_event_first_used EXCEPT ![d] = Bump(Bump(cuda_event_first_used[d]))]

\* (variant: the count is not decremented)
ReleaseHead_keepcount(d) ==
    /\ cuda_event_num_used' = cuda_event_num_used
    /\ cuda_event_first_used' =
           [cuda_event_first_used EXCEPT ![d] = Bump(cuda_event_first_used[d])]

\* --num_used; ++first_used with wrap-around (lines 1063-1067, 1190-1194, ...)
ReleaseHead(d) ==
    /\ cuda_event_num_used' = [cuda_event_num_used EXCEPT ![d] = @ - 1]
    /\ cuda_event_first_used' =
           [cuda_event_first_used EXCEPT ![d] = Bump(cuda_event_first_used[d])]

(***************************************************************************)
(* mca_common_cuda_record_dtoh_event / mca_common_cuda_record_htod_event   *)
(* (lines 1077-1106, 1112-1141).  res is the result of cuEventRecord.      *)
(***************************************************************************)
mca_common_cuda_record_event(d, frag, res) ==
    /\ pc = "idle"
    /\ UNCHANGED <<ipc_vars, ugni_vars, mpit_vars>>
    /\ LayerUp
    /\ d \in {"dtoh", "htod"}
    /\ NumRecorded < MaxRecords \/ PoolFull(d)
    /\ UNCHANGED <<layer_vars, reg_vars, pc>>
    /\ IF PoolFull(d)
       THEN /\ last' = Call("record", d, "OUT_OF_RESOURCE", NULL, 0, {})
            /\ UNCHANGED <<pool_vars, hist_vars>>
       ELSE IF res # "SUCCESS"
       THEN /\ last' = Call("record", d, "ERROR", NULL, 0,
                            {<<"cuEventRecord", cuda_event_first_avail[d]>>})
            /\ UNCHANGED <<pool_vars, hist_vars>>
       ELSE /\ StoreEvent(d, frag)
            /\ last' = Call("record", d, "SUCCESS", NULL, 0,
                            {<<"cuEventRecord", cuda_event_first_avail[d]>>})
            /\ UNCHANGED <<cuda_event_first_used, polled>>

(***************************************************************************)
(* mca_common_cuda_memcpy (lines 968-1071).  copyres and recres are the    *)
(* results of cuMemcpyAsync and cuEventRecord, qres the result of the      *)
(* first cuEventQuery of the synchronous branch.  In the synchronous       *)
(* branch the call stays in its query loop (pc = "memcpy_wait") while the  *)
(* head event is not ready.                                                *)
(***************************************************************************)
mca_common_cuda_memcpy(frag, copyres, recres, qres) ==
    /\ pc = "idle"
    /\ UNCHANGED <<ipc_vars, ugni_vars, mpit_vars>>
    /\ LayerUp
    /\ NumRecorded < MaxRecords \/ PoolFull("ipc")
    /\ UNCHANGED <<layer_vars, reg_vars>>
    /\ LET d == "ipc"
           avail == cuda_event_first_avail[d]
           used == cuda_event_first_used[d]
           copy == {<<"cuMemcpyAsync", 0>>}
           rec == {<<"cuEventRecord", avail>>}
           qry == {<<"cuEventQuery", used>>}
       IN
       IF PoolFull(d)
       THEN /\ last' = Call("memcpy", d, "OUT_OF_RESOURCE", NULL, 0, {})
            /\ UNCHANGED <<pool_vars, hist_vars, pc>>
       ELSE IF copyres # "SUCCESS"
       THEN /\ last' = Call("memcpy", d, "ERROR", NULL, 0, copy)
            /\ UNCHANGED <<pool_vars, hist_vars, pc>>
       ELSE IF recres # "SUCCESS"
       THEN /\ last' = Call("memcpy", d, "ERROR", NULL, 0, copy \cup rec)
            /\ UNCHANGED <<pool_vars, hist_vars, pc>>
       ELSE IF mca_common_cuda_async # 0
       THEN /\ StoreEvent(d, frag)
            /\ last' = Call("memcpy", d, "SUCCESS", NULL, 0, copy \cup rec)
            /\ UNCHANGED <<cuda_event_first_used, polled, pc>>
       ELSE \* synchronous copy: store, then query the slot at first_used
            /\ cuda_event_array' = [cuda_event_array EXCEPT ![d][avail] = "pending"]
            /\ cuda_event_frag_array' = [cuda_event_frag_array EXCEPT ![d][avail] = frag]
            /\ cuda_event_first_avail' = [cuda_event_first_avail EXCEPT ![d] = Bump(avail)]
            /\ recorded' = [recorded EXCEPT ![d] = Append(@, frag)]
            /\ qres \in QueryResults(cuda_event_array'[d][used])
            /\ IF qres = "ERROR"
               THEN /\ cuda_event_num_used' = [cuda_event_num_used EXCEPT ![d] = @ + 1]
                    /\ last' = Call("memcpy", d, "ERROR", NULL, 0, copy \cup rec \cup qry)
                    /\ UNCHANGED <<cuda_event_first_used, polled, pc>>
               ELSE IF qres = "NOT_READY"
               THEN /\ cuda_event_num_used' = [cuda_event_num_used EXCEPT ![d] = @ + 1]
                    /\ pc' = "memcpy_wait"
                    /\ last' = Call("memcpy", d, "waiting", NULL, 0, copy \cup rec \cup qry)
                    /\ UNCHANGED <<cuda_event_first_used, polled>>
               ELSE \* ++num_used followed by --num_used
                    /\ cuda_event_first_used' =
                           [cuda_event_first_used EXCEPT ![d] = Bump(used)]
                    /\ polled' = [polled EXCEPT ![d] =
                                     Append(@, cuda_event_frag_array'[d][used])]
                    /\ last' = Call("memcpy", d, "SUCCESS", NULL, 1, copy \cup rec \cup qry)
                    /\ UNCHANGED <<cuda_event_num_used, pc>>

\* one more iteration of the query loop of the synchronous copy (lines 1050-1068)
mca_common_cuda_memcpy_wait(qres) ==
    /\ pc = "memcpy_wait"
    /\ UNCHANGED <<ipc_vars, ugni_vars, mpit_vars>>
    /\ LET d == "ipc"
           used == cuda_event_first_used[d]
       IN  /\ qres \in QueryResults(cuda_event_array[d][used])
           /\ qres # "NOT_READY"
           /\ UNCHANGED <<layer_vars, reg_vars, cuda_event_array, cuda_event_frag_array,
                          cuda_event_first_avail, recorded>>
           /\ pc' = "idle"
           /\ IF qres = "ERROR"
              THEN /\ last' = Call("memcpy", d, "ERROR", NULL, 0, {<<"cuEventQuery", used>>})
                   /\ UNCHANGED <<cuda_event_first_used, cuda_event_num_used, polled>>
              ELSE /\ ReleaseHead(d)
                   /\ polled' = [polled EXCEPT ![d] = Append(@, cuda_event_frag_array[d][used])]
                   /\ last' = Call("memcpy", d, "SUCCESS", NULL, 1, {<<"cuEventQuery", used>>})

(***************************************************************************)
(* progress_one_cuda_ipc_event / _dtoh_event / _htod_event (lines          *)
(* 1162-1283).  qres is the result of cuEventQuery on the head slot.       *)
(***************************************************************************)
\* (variant: a poll whose query failed drops the head slot)
FailedPoll_drops(d) == ReleaseHead(d) /\ UNCHANGED polled

\* the return of a poll whose query failed: no counter is touched
FailedPoll(d) == UNCHANGED <<cuda_event_first_used, cuda_event_num_used, polled>>

progress_one_cuda_event(d, qres) ==
    /\ pc = "idle"
    /\ UNCHANGED <<ipc_vars, ugni_vars, mpit_vars>>
    /\ UNCHANGED <<layer_vars, reg_vars, cuda_event_array, cuda_event_frag_array,
                   cuda_event_first_avail, recorded, pc>>
    /\ LET used == QuerySlot(d)
           qry == {<<"cuEventQuery", used>>}
       IN
       IF cuda_event_num_used[d] > 0
       THEN /\ qres \in QueryResults(cuda_event_array[d][used])
            /\ IF qres = "NOT_READY"
               THEN /\ last' = Call("progress_one", d, "0", NULL, 0, qry)
                    /\ UNCHANGED <<cuda_event_first_used, cuda_event_num_used, polled>>
               ELSE IF qres # "SUCCESS"
               THEN /\ last' = Call("progress_one", d, "ERROR", NULL, 0, qry)
                    /\ FailedPoll(d)
               ELSE /\ ReleaseHead(d)
                    /\ polled' = [polled EXCEPT ![d] = Append(@, cuda_event_frag_array[d][used])]
                    /\ last' = Call("progress_one", d, "1",
                                    cuda_event_frag_array[d][used], 0, qry)
       ELSE /\ last' = Call("progress_one", d, "0", Untouched, 0, {})
            /\ UNCHANGED <<cuda_event_first_used, cuda_event_num_used, polled>>

\* the device finishes the work an event of pool d was recorded behind
cuEventCompletes(d, i) ==
    /\ cuda_event_array[d][i] = "pending"
    /\ UNCHANGED <<ipc_vars, ugni_vars, mpit_vars>>
    /\ cuda_event_array' = [cuda_event_array EXCEPT ![d][i] = "complete"]
    /\ last' = Call("cuEventCompletes", "none", "none", NULL, 0, {})
    /\ UNCHANGED <<layer_vars, reg_vars, cuda_event_frag_array, cuda_event_first_avail,
                   cuda_event_first_used, cuda_event_num_used, hist_vars, pc>>

(***************************************************************************)
(* Exchange of device memory between two processes (lines 733-962): the    *)
(* owner exports a registration (cuda_getmemhandle), the handles travel to *)
(* the peer, the peer imports them (cuda_openmemhandle), waits for the     *)
(* owner's event (mca_common_wait_stream_synchronize) and copies.          *)
(*                                                                         *)
(* The driver: a memory handle names the allocation of the pointer it was  *)
(* asked for, an event handle names its event.  A record on the NULL       *)
(* stream captures the work issued before it; a stream that waits for an   *)
(* event goes on when the work captured by the event's last record is      *)
(* done.  Work is counted in writes of the owner: an event whose capture   *)
(* is n is complete when the first n writes are.                           *)
(***************************************************************************)
CUresults == {"CUDA_SUCCESS", "CUDA_ERROR_ALREADY_MAPPED",
              "CUDA_ERROR_INVALID_HANDLE", "CUDA_ERROR_OUT_OF_MEMORY"}

\* the allocation an address lies in
AllocationOf(ptr) == CHOOSE a \in Allocations : a.base <= ptr /\ ptr <= a.base + a.size - 1

\* cuMemGetAddressRange: base and size of the allocation of ptr
cuMemGetAddressRange(ptr) == [pbase |-> AllocationOf(ptr).base, psize |-> AllocationOf(ptr).size]

\* cuIpcGetMemHandle: the token of the allocation of ptr
cuIpcGetMemHandle(ptr) == 200 + AllocationOf(ptr).base

\* the allocation a memory handle names
HandleAllocation(h) == CHOOSE a \in Allocations : 200 + a.base = h

\* cuIpcOpenMemHandle: the address at which the peer sees an allocation
PeerAddress(a) == 1000 + a.base

\* cuIpcGetEventHandle / cuIpcOpenEventHandle: the token of an event and back
EventHandle(e) == 100 + e
EventOfHandle(h) == h - 100

\* e is an event the driver knows
ValidEvent(e) == e \in EventIds /\ cu_event[e] # NotCreated

\* cuEventCreate hands out the lowest event that is not in use
FreshEvent == CHOOSE e \in EventIds :
                  /\ cu_event[e] = NotCreated
                  /\ \A x \in EventIds : x < e => cu_event[x] # NotCreated

cuda_frame == <<layer_vars, reg_vars, pool_vars, hist_vars>>

(***************************************************************************)
(* mca_common_cuda_construct_event_and_handle (lines 887-905): creates the *)
(* event of a registration and its handle.  A failure is only reported:    *)
(* after a failed cuEventCreate the handle is asked for an event that does *)
(* not exist.                                                              *)
(***************************************************************************)
mca_common_cuda_construct_event_and_handle(r, createres, handleres) ==
    /\ pc = "idle"
    /\ LayerUp
    /\ ~cuda_reg[r].constructed
    /\ LET created == createres = "CUDA_SUCCESS"
           event == IF created THEN FreshEvent ELSE cuda_reg[r].event
           hres == IF created THEN handleres ELSE "CUDA_ERROR_INVALID_HANDLE"
       IN  /\ cu_event' = IF created THEN [cu_event EXCEPT ![event] = NeverRecorded]
                          ELSE cu_event
           /\ cuda_reg' = [cuda_reg EXCEPT ![r].constructed = TRUE,
                                           ![r].event = event,
                                           ![r].evtHandle = IF hres = "CUDA_SUCCESS"
                                                            THEN EventHandle(event) ELSE @]
           /\ ipc_call' = IpcCall(NULL, r, {<<"cuEventCreate", createres>>,
                                            <<"cuIpcGetEventHandle", hres>>})
           /\ last' = Call("construct_event_and_handle", "none", "void", NULL, 0,
                           {<<"cuEventCreate", 0>>, <<"cuIpcGetEventHandle", event>>})
    /\ UNCHANGED <<cuda_frame, pc, ugni_vars, mpit_vars>>
    /\ UNCHANGED <<rget_reg, peer_mapped, issued, completed, export_mark, peer_barrier>>

(***************************************************************************)
(* The owner's copies into its device memory (the memcopies of the comment *)
(* at lines 789-795) and their completion, in the order of issue.          *)
(***************************************************************************)
DeviceWrite ==
    /\ pc = "idle"
    /\ LayerUp
    /\ issued < MaxWrites
    /\ issued' = issued + 1
    /\ last' = Call("device_write", "none", "SUCCESS", NULL, 0, {})
    /\ ipc_call' = NoIpcCall
    /\ UNCHANGED <<cuda_frame, pc, ugni_vars, mpit_vars>>
    /\ UNCHANGED <<cuda_reg, rget_reg, cu_event, peer_mapped, completed, export_mark,
                   peer_barrier>>

DeviceWriteCompletes ==
    /\ completed < issued
    /\ completed' = completed + 1
    /\ last' = Call("device_write_completes", "none", "none", NULL, 0, {})
    /\ ipc_call' = NoIpcCall
    /\ UNCHANGED <<cuda_frame, pc, ugni_vars, mpit_vars>>
    /\ UNCHANGED <<cuda_reg, rget_reg, cu_event, peer_mapped, issued, export_mark,
                   peer_barrier>>

(***************************************************************************)
(* cuda_getmemhandle (lines 739-804).  attr is the outcome of the pointer  *)
(* attribute query, whose result is only asserted: "ok", or a failure that *)
(* aborts the process (assertions compiled in) or goes unnoticed (NDEBUG). *)
(* fail names the first of the three checked driver calls that fails.  It  *)
(* is the registration function of the owner's side: a registration is     *)
(* passed to it once, and again only if nothing was stored in it.          *)
(***************************************************************************)
GetMemHandleFailures == {"none", "cuIpcGetMemHandle", "cuMemGetAddressRange", "cuEventRecord"}

\* (variant: the bound is the address after the allocation)
BoundOf_past(range) == range.pbase + range.psize

\* base.bound of the registration: the last address of the allocation
BoundOf(range) == range.pbase + range.psize - 1

cuda_getmemhandle(base, r, attr, fail) ==
    /\ pc = "idle"
    /\ LayerUp
    /\ cuda_reg[r].constructed
    /\ cuda_reg[r].memHandle = NULL
    /\ UNCHANGED <<cuda_frame, ugni_vars, mpit_vars>>
    /\ UNCHANGED <<rget_reg, peer_mapped, issued, completed, peer_barrier>>
    /\ IF attr = "abort"
       THEN /\ pc' = "aborted"
            /\ last' = Call("getmemhandle", "none", "abort", NULL, 0,
                            {<<"cuPointerGetAttribute", base>>})
            /\ ipc_call' = IpcCall(base, r,
                                   {<<"cuPointerGetAttribute", "CUDA_ERROR_INVALID_VALUE">>})
            /\ UNCHANGED <<cuda_reg, cu_event, export_mark>>
       ELSE LET event == cuda_reg[r].event
                range == cuMemGetAddressRange(base)
                hfail == fail = "cuIpcGetMemHandle"
                rfail == fail = "cuMemGetAddressRange"
                efail == fail = "cuEventRecord" \/ ~ValidEvent(event)
                stored == ~hfail /\ ~rfail
                ok == stored /\ ~efail
                failure(f) == IF f THEN "CUDA_ERROR_INVALID_VALUE" ELSE "CUDA_SUCCESS"
            IN  /\ pc' = pc
                /\ cuda_reg' = IF stored
                               THEN [cuda_reg EXCEPT ![r].base = range.pbase,
                                                     ![r].bound = BoundOf(range),
                                                     ![r].memHandle = cuIpcGetMemHandle(base)]
                               ELSE cuda_reg
                /\ cu_event' = IF ok THEN [cu_event EXCEPT ![event] = issued] ELSE cu_event
                /\ export_mark' = IF ok THEN [export_mark EXCEPT ![r] = issued]
                                  ELSE export_mark
                /\ last' = Call("getmemhandle", "none", IF ok THEN "SUCCESS" ELSE "ERROR",
                                NULL, 0,
                                {<<"cuPointerGetAttribute", base>>, <<"cuIpcGetMemHandle", base>>}
                                \cup (IF hfail THEN {} ELSE {<<"cuMemGetAddressRange", base>>})
                                \cup (IF stored THEN {<<"cuEventRecord", event>>} ELSE {}))
                /\ ipc_call' =
                       IpcCall(base, r,
                               {<<"cuPointerGetAttribute", failure(attr # "ok")>>,
                                <<"cuIpcGetMemHandle", failure(hfail)>>}
                               \cup (IF hfail THEN {}
                                     ELSE {<<"cuMemGetAddressRange", failure(rfail)>>})
                               \cup (IF stored THEN {<<"cuEventRecord", failure(efail)>>}
                                     ELSE {}))

(***************************************************************************)
(* The handles of an exported registration reach the peer, which stores    *)
(* them in a registration of its own before it calls cuda_openmemhandle    *)
(* (newreg "contains the new handle", lines 819-833; the event handle "is  *)
(* sent to the remote process", lines 789-795).                            *)
(***************************************************************************)
ReceiveHandle(p, r) ==
    /\ pc = "idle"
    /\ LayerUp
    /\ export_mark[r] >= 0
    /\ rget_reg[p].memHandle = NULL
    /\ rget_reg' = [rget_reg EXCEPT ![p] = [memHandle |-> cuda_reg[r].memHandle,
                                            evtHandle |-> cuda_reg[r].evtHandle,
                                            alloc_base |-> NULL,
                                            from |-> r,
                                            waited |-> -1,
                                            blocked |-> FALSE]]
    /\ last' = Call("receive_handle", "none", "none", NULL, 0, {})
    /\ ipc_call' = IpcCall(NULL, p, {})
    /\ UNCHANGED <<cuda_frame, pc, ugni_vars, mpit_vars>>
    /\ UNCHANGED <<cuda_reg, cu_event, peer_mapped, issued, completed, export_mark,
                   peer_barrier>>

(***************************************************************************)
(* cuda_openmemhandle (lines 825-862).  res is the failure the environment *)
(* lets the driver report ("CUDA_SUCCESS" for none); without one the       *)
(* driver refuses to map an allocation that is mapped already.             *)
(***************************************************************************)
cuIpcOpenMemHandle(h, res) ==
    IF res # "CUDA_SUCCESS" THEN res
    ELSE IF HandleAllocation(h).base \in peer_mapped THEN "CUDA_ERROR_ALREADY_MAPPED"
    ELSE "CUDA_SUCCESS"

\* (variant: an allocation that is mapped already is a fatal error)
OpenReturnCode_fatal(result) ==
    IF result = "CUDA_SUCCESS" THEN "SUCCESS" ELSE "ERROR"

\* the return code of cuda_openmemhandle for the driver's result
OpenReturnCode(result) ==
    IF result = "CUDA_ERROR_ALREADY_MAPPED" THEN "WOULD_BLOCK"
    ELSE IF result # "CUDA_SUCCESS" THEN "ERROR"
    ELSE "SUCCESS"

cuda_openmemhandle(p, res) ==
    /\ pc = "idle"
    /\ LayerUp
    /\ rget_reg[p].memHandle # NULL
    /\ rget_reg[p].alloc_base = NULL
    /\ LET h == rget_reg[p].memHandle
           result == cuIpcOpenMemHandle(h, res)
           rc == OpenReturnCode(result)
       IN  /\ rget_reg' = [rget_reg EXCEPT
                              ![p].alloc_base = IF result = "CUDA_SUCCESS"
                                                THEN PeerAddress(HandleAllocation(h)) ELSE @,
                              ![p].blocked = IF result = "CUDA_SUCCESS" THEN @
                                             ELSE (rc = "WOULD_BLOCK")]
           /\ peer_mapped' = IF result = "CUDA_SUCCESS"
                             THEN peer_mapped \cup {HandleAllocation(h).base}
                             ELSE peer_mapped
           /\ last' = Call("openmemhandle", "none", rc, NULL, 0,
                           {<<"cuIpcOpenMemHandle", h>>})
           /\ ipc_call' = IpcCall(NULL, p, {<<"cuIpcOpenMemHandle", result>>})
    /\ UNCHANGED <<cuda_frame, pc, ugni_vars, mpit_vars>>
    /\ UNCHANGED <<cuda_reg, cu_event, issued, completed, export_mark, peer_barrier>>

(***************************************************************************)
(* cuda_closememhandle (lines 867-885): a failure of the driver is only    *)
(* reported, the call returns success.  The peer's registration is given   *)
(* up with the call.                                                       *)
(***************************************************************************)
cuIpcCloseMemHandle(addr, res) ==
    IF res # "CUDA_SUCCESS" THEN res
    ELSE IF \E a \in Allocations : PeerAddress(a) = addr /\ a.base \in peer_mapped
         THEN "CUDA_SUCCESS"
         ELSE "CUDA_ERROR_INVALID_HANDLE"

cuda_closememhandle(p, res) ==
    /\ pc = "idle"
    /\ LayerUp
    /\ rget_reg[p].alloc_base # NULL
    /\ LET addr == rget_reg[p].alloc_base
           result == cuIpcCloseMemHandle(addr, res)
       IN  /\ peer_mapped' = IF result = "CUDA_SUCCESS"
                             THEN {b \in peer_mapped :
                                      \A a \in Allocations : a.base = b => PeerAddress(a) # addr}
                             ELSE peer_mapped
           /\ rget_reg' = [rget_reg EXCEPT ![p] = NewRgetReg]
           /\ last' = Call("closememhandle", "none", "SUCCESS", NULL, 0,
                           {<<"cuIpcCloseMemHandle", addr>>})
           /\ ipc_call' = IpcCall(NULL, p, {<<"cuIpcCloseMemHandle", result>>})
    /\ UNCHANGED <<cuda_frame, pc, ugni_vars, mpit_vars>>
    /\ UNCHANGED <<cuda_reg, cu_event, issued, completed, export_mark, peer_barrier>>

(***************************************************************************)
(* mca_common_wait_stream_synchronize (lines 923-962): opens the event of  *)
(* the received handle, records it on the NULL stream (the work-around),   *)
(* lets the NULL stream wait for it and destroys the opened event.  Every  *)
(* failure is only reported.  openres, recres and waitres are the failures *)
(* the environment lets the driver report; after a failed open the local   *)
(* variable event is uninitialized, garbage is the value it happens to     *)
(* hold.  The record of the work-around "is not used" (lines 938-942): the *)
(* wait is for what the owner's record captured.  The stream then waits    *)
(* for the latest capture it was told to wait for.                         *)
(***************************************************************************)
mca_common_wait_stream_synchronize(p, openres, recres, waitres, garbage) ==
    /\ pc = "idle"
    /\ LayerUp
    /\ rget_reg[p].memHandle # NULL
    /\ LET h == rget_reg[p].evtHandle
           ores == IF openres = "CUDA_SUCCESS" /\ ~ValidEvent(EventOfHandle(h))
                   THEN "CUDA_ERROR_INVALID_HANDLE" ELSE openres
           event == IF ores = "CUDA_SUCCESS" THEN EventOfHandle(h) ELSE garbage
           rres == IF recres = "CUDA_SUCCESS" /\ ~ValidEvent(event)
                   THEN "CUDA_ERROR_INVALID_HANDLE" ELSE recres
           wres == IF waitres = "CUDA_SUCCESS" /\ ~ValidEvent(event)
                   THEN "CUDA_ERROR_INVALID_HANDLE" ELSE waitres
       IN  /\ peer_barrier' = IF wres = "CUDA_SUCCESS" /\ cu_event[event] > peer_barrier
                              THEN cu_event[event] ELSE peer_barrier
           /\ rget_reg' = [rget_reg EXCEPT ![p].waited = export_mark[rget_reg[p].from]]
           /\ last' = Call("wait_stream_synchronize", "none", "void", NULL, 0,
                           {<<"cuIpcOpenEventHandle", h>>, <<"cuEventRecord", event>>,
                            <<"cuStreamWaitEvent", event>>, <<"cuEventDestroy", event>>})
           /\ ipc_call' = IpcCall(NULL, p, {<<"cuIpcOpenEventHandle", ores>>,
                                            <<"cuEventRecord", rres>>,
                                            <<"cuStreamWaitEvent", wres>>})
    /\ UNCHANGED <<cuda_frame, pc, ugni_vars, mpit_vars>>
    /\ UNCHANGED <<cuda_reg, cu_event, peer_mapped, issued, completed, export_mark>>

(***************************************************************************)
(* The copy the peer puts on its NULL stream after the wait ("the start of *)
(* the copy does not start until the completion of the event", lines       *)
(* 919-922): it starts when the stream has passed its waits and reads what *)
(* the writes completed by then have left in the owner's memory.           *)
(***************************************************************************)
PeerCopy ==
    /\ pc = "idle"
    /\ LayerUp
    /\ completed >= peer_barrier
    /\ last' = Call("peer_copy", "none", "SUCCESS", NULL, 0, {})
    /\ ipc_call' = NoIpcCall
    /\ UNCHANGED <<cuda_frame, pc, ugni_vars, mpit_vars>>
    /\ UNCHANGED <<cuda_reg, rget_reg, cu_event, peer_mapped, issued, completed, export_mark,
                   peer_barrier>>

(***************************************************************************)
(* The uGNI component (src/unnamed/part_001): the progress function and    *)
(* the functions it calls, one action for each.  The position of           *)
(* mca_btl_ugni_component_progress in its loop is prog: module prog.i,     *)
(* stage prog.stage.  count is the local variable of the same name,        *)
(* advanced counts the work items the invocation has advanced, visited is  *)
(* the list of the calls it has made.                                      *)
(***************************************************************************)
rdma_vars == <<frags, callbacks, rdma_local_cq, failed_frags>>
wait_vars == <<ep_wait_list, wait_listed>>
conn_vars == <<ep_state, datagram, wildcard_posted, wait_failed, mailbox>>
smsg_vars == <<smsg_local_cq, smsg_remote_cq>>
init_vars == <<component, init_call>>
ugni_frame == <<cuda_frame, ipc_vars, pc, init_vars, mpit_vars>>

\* the elements of a list
Range(list) == {list[k] : k \in 1 .. Len(list)}

\* (variant: the datagrams are polled before the wait list is attempted)
NextStage_datagram_first(k) ==
    IF k = Len(Stages) THEN 1
    ELSE IF k = 1 THEN 3 ELSE IF k = 3 THEN 2 ELSE IF k = 2 THEN 4 ELSE k + 1

\* the call that follows call k in the body of the loop (lines 530-537)
NextStage(k) == IF k = Len(Stages) THEN 1 ELSE k + 1

\* (variant: every call of the loop counts as one more item of progress)
AfterStage_counts_calls(r, n) ==
    [prog EXCEPT !.count = @ + r + 1,
                 !.advanced = @ + n,
                 !.visited = Append(@, <<prog.i, Stages[prog.stage]>>),
                 !.stage = IF prog.stage = Len(Stages) THEN 1 ELSE @ + 1,
                 !.i = IF prog.stage = Len(Stages) THEN @ + 1 ELSE @]

\* the position after the current call returned: r is what the loop adds to
\* count, n the number of work items the call advanced
AfterStage(r, n) ==
    [prog EXCEPT !.count = @ + r,
                 !.advanced = @ + n,
                 !.visited = Append(@, <<prog.i, Stages[prog.stage]>>),
                 !.stage = NextStage(prog.stage),
                 !.i = IF prog.stage = Len(Stages) THEN @ + 1 ELSE @]

\* the loop is about to make the call named stage
InStage(stage) ==
    /\ pc = "idle"
    /\ prog.running
    /\ prog.i \in Btls
    /\ Stages[prog.stage] = stage

\* a step of the loop is recorded under the name of the function called
UgniStep(op) == Call(op, "none", "none", NULL, 0, {})

\* mca_btl_ugni_component_progress is entered (lines 522-528)
mca_btl_ugni_component_progress ==
    /\ pc = "idle"
    /\ ~prog.running
    /\ prog' = [running |-> TRUE, i |-> 1, stage |-> 1, count |-> 0, advanced |-> 0,
                visited |-> <<>>]
    /\ ugni_call' = NoUgniCall
    /\ last' = UgniStep("component_progress")
    /\ UNCHANGED <<ugni_frame, rdma_vars, wait_vars, conn_vars, smsg_vars>>

\* the loop is over and count is returned (line 540)
mca_btl_ugni_component_progress_return ==
    /\ pc = "idle"
    /\ prog.running
    /\ prog.i \notin Btls
    /\ prog' = NotInProgress
    /\ ugni_call' = UgniCall(NULL, prog.advanced, prog.count, "none", FALSE, FALSE)
    /\ last' = UgniStep("component_progress_return")
    /\ UNCHANGED <<ugni_frame, rdma_vars, wait_vars, conn_vars, smsg_vars>>

\* (variant: a fragment stays posted after its completion callback)
FragAfterCallback_posted(fr) == [fr EXCEPT !.state = "posted"]

\* a fragment whose completion callback was called: the transfer is over
FragAfterCallback(fr) == [fr EXCEPT !.state = "done"]

\* mca_btl_ugni_repost: the fragment is posted again; if the post fails, the
\* fragment is put on failed_frags with the repost as its callback
RepostFrag(fr, posted) ==
    IF posted THEN [fr EXCEPT !.state = "posted", !.cbfunc = "complete"]
    ELSE [fr EXCEPT !.state = "failed", !.cbfunc = "repost"]

(***************************************************************************)
(* mca_btl_ugni_retry_failed (lines 482-497): takes as many fragments off  *)
(* failed_frags as the list holds at the start and calls the callback of   *)
(* each with OMPI_SUCCESS.  failing are the fragments whose repost cannot  *)
(* be posted again: their callback puts them at the end of the list.  The  *)
(* caller drops the value returned (line 530).                             *)
(***************************************************************************)
\* (variant: only the first fragment of the list is taken)
RetryCount_first_only(list) == IF list = <<>> THEN 0 ELSE 1

\* the number of iterations, taken from the list before the loop (line 485)
RetryCount(list) == Len(list)

\* n more iterations of the loop of lines 488-494 on st: the list, the
\* fragments, the statuses given to completion callbacks, and the calls of
\* cbfunc made so far, each the fragment and the status passed
RECURSIVE RetryLoop(_, _, _)
RetryLoop(st, n, failing) ==
    IF n = 0
    THEN st
    ELSE LET f == Head(st.list)
             rest == Tail(st.list)
             isrepost == st.frags[f].cbfunc = "repost"
             fr == IF isrepost THEN RepostFrag(st.frags[f], f \notin failing)
                   ELSE FragAfterCallback(st.frags[f])
         IN  RetryLoop([list |-> IF fr.state = "failed" THEN Append(rest, f) ELSE rest,
                        frags |-> [st.frags EXCEPT ![f] = fr],
                        callbacks |-> IF isrepost THEN st.callbacks
                                      ELSE [st.callbacks EXCEPT ![f] = Append(@, "SUCCESS")],
                        called |-> Append(st.called, <<f, OMPI_SUCCESS>>)],
                       n - 1, failing)

mca_btl_ugni_retry_failed(failing) ==
    /\ InStage("retry_failed")
    /\ LET b == prog.i
           list == failed_frags[b]
           count == RetryCount(list)
           end == RetryLoop([list |-> list, frags |-> frags, callbacks |-> callbacks,
                             called |-> <<>>], count, failing)
       IN  /\ failing \subseteq Range(list)
           /\ frags' = end.frags
           /\ callbacks' = end.callbacks
           /\ failed_frags' = [failed_frags EXCEPT ![b] = end.list]
           /\ prog' = AfterStage(0, count)
           /\ ugni_call' = UgniCall(b, end.called, count, "none", FALSE,
                                    \E f \in Range(list) : frags[f].cbfunc = "repost")
    /\ last' = UgniStep("retry_failed")
    /\ UNCHANGED <<ugni_frame, rdma_local_cq, wait_vars, conn_vars, smsg_vars>>

(***************************************************************************)
(* mca_btl_ugni_progress_wait_list (lines 499-520): takes as many          *)
(* endpoints off ep_wait_list as the list holds at the start, clears the   *)
(* flag of each and lets it send.  outcome[e] is what                      *)
(* mca_btl_progress_send_wait_list does for endpoint e: "sent" (success),  *)
(* "failed" (an error, the endpoint left off the list) or "relisted" (an   *)
(* error after the send path has put the endpoint on the list again and    *)
(* set its flag).  The caller drops the value returned (line 531).         *)
(***************************************************************************)
WaitOutcomes == {"sent", "failed", "relisted"}

\* (variant: the endpoint is appended after every failed send)
ReAppends_unguarded(rc, listed) == rc # OMPI_SUCCESS

\* the test of line 513: the loop appends the endpoint again
ReAppends(rc, listed) == rc # OMPI_SUCCESS /\ ~listed

\* (variant: only the first endpoint of the list is attempted)
WaitListCount_first_only(list) == IF list = <<>> THEN 0 ELSE 1

\* the number of iterations, taken from the list before the loop (line 502)
WaitListCount(list) == Len(list)

\* (variant: the flag is not cleared when the endpoint is taken off the list)
FlagAfterAttempt_kept(bycallee, again) == TRUE

\* wait_listed after one iteration: cleared at line 510, set by the send
\* that puts the endpoint back or by line 515
FlagAfterAttempt(bycallee, again) == bycallee \/ again

\* n more iterations of the loop of lines 505-517 on st, the list, the
\* wait_listed flags and the attempts made so far, each the endpoint and the
\* return code of its send
RECURSIVE WaitListLoop(_, _, _)
WaitListLoop(st, n, outcome) ==
    IF n = 0
    THEN st
    ELSE LET e == Head(st.list)
             rc == IF outcome[e] = "sent" THEN OMPI_SUCCESS ELSE OMPI_ERROR
             \* after mca_btl_progress_send_wait_list
             bycallee == outcome[e] = "relisted"
             rest == IF bycallee THEN Append(Tail(st.list), e) ELSE Tail(st.list)
             again == ReAppends(rc, bycallee)
         IN  WaitListLoop([list |-> IF again THEN Append(rest, e) ELSE rest,
                           listed |-> [st.listed EXCEPT ![e] = FlagAfterAttempt(bycallee, again)],
                           attempted |-> Append(st.attempted, <<e, rc>>)],
                          n - 1, outcome)

mca_btl_ugni_progress_wait_list(outcome) ==
    /\ InStage("progress_wait_list")
    /\ LET b == prog.i
           count == WaitListCount(ep_wait_list[b])
           end == WaitListLoop([list |-> ep_wait_list[b], listed |-> wait_listed[b],
                                attempted |-> <<>>], count, outcome)
       IN  /\ \A e \in Eps \ Range(ep_wait_list[b]) : outcome[e] = "sent"
           /\ ep_wait_list' = [ep_wait_list EXCEPT ![b] = end.list]
           /\ wait_listed' = [wait_listed EXCEPT ![b] = end.listed]
           /\ prog' = AfterStage(0, count)
           /\ ugni_call' = UgniCall(b, end.attempted, count, "none", FALSE, FALSE)
    /\ last' = UgniStep("progress_wait_list")
    /\ UNCHANGED <<ugni_frame, rdma_vars, conn_vars, smsg_vars>>

(***************************************************************************)
(* mca_btl_ugni_progress_datagram (lines 372-425).  Without a completed    *)
(* datagram the probe fails and 0 is returned.  waitres is the result of   *)
(* GNI_EpPostDataWaitById: on a failure the error code is returned, the    *)
(* endpoint is not touched and the wildcard datagram is not posted again;  *)
(* kept tells whether the datagram that could not be collected is still    *)
(* there for the next probe.  connres is the outcome of                    *)
(* mca_btl_ugni_ep_connect_progress, whose return code is dropped (line    *)
(* 411).  For an endpoint that is connected afterwards the messages in the *)
(* mailbox are processed and their number is returned.                     *)
(***************************************************************************)
ConnectResults == {"SUCCESS", "IN_PROGRESS", "ERROR"}

\* the state in which mca_btl_ugni_ep_connect_progress leaves an endpoint:
\* a connected or failed endpoint stays as it is, the others connect, stay
\* or become connecting, or fail out of the connecting state
mca_btl_ugni_ep_connect_progress(state, connres) ==
    IF state \in {"CONNECTED", "FAILED"} THEN state
    ELSE IF connres = "SUCCESS" THEN "CONNECTED"
    ELSE IF connres = "IN_PROGRESS" THEN "CONNECTING"
    ELSE IF state = "CONNECTING" THEN "FAILED"
    ELSE state

\* (variant: the mailbox is processed after every datagram)
SmsgProcessed_always(state) == TRUE

\* the test of line 413: the mailbox of the endpoint is processed
SmsgProcessed(state) == state = "CONNECTED"

mca_btl_ugni_progress_datagram(waitres, kept, connres) ==
    /\ InStage("progress_datagram")
    /\ LET b == prog.i
           d == datagram[b]
           ep == d.ep
           state == mca_btl_ugni_ep_connect_progress(ep_state[b][ep], connres)
           count == IF SmsgProcessed(state) THEN mailbox[b][ep] ELSE 0
       IN  IF d.id = "none"
           THEN /\ prog' = AfterStage(0, 0)
                /\ ugni_call' = UgniCall(b, NULL, 0, "none", FALSE, FALSE)
                /\ UNCHANGED conn_vars
           ELSE IF waitres # "SUCCESS"
           THEN /\ prog' = AfterStage(OMPI_ERROR, 1)
                /\ ugni_call' = [UgniCall(b, ep, OMPI_ERROR, "none", ~kept, FALSE)
                                     EXCEPT !.event = "wait_failed"]
                /\ datagram' = [datagram EXCEPT ![b] = IF kept THEN @ ELSE NoDatagram]
                /\ wait_failed' = [wait_failed EXCEPT
                                      ![b] = IF ep_state[b][ep] = "CONNECTING"
                                             THEN @ \cup {ep} ELSE @]
                /\ UNCHANGED <<ep_state, wildcard_posted, mailbox>>
           ELSE /\ prog' = AfterStage(count, 1 + count)
                /\ ugni_call' = [UgniCall(b, ep, count, "none", TRUE, d.id = "wildcard")
                                     EXCEPT !.event = connres]
                /\ datagram' = [datagram EXCEPT ![b] = NoDatagram]
                /\ ep_state' = [ep_state EXCEPT ![b][ep] = state]
                /\ mailbox' = [mailbox EXCEPT ![b][ep] = @ - count]
                /\ wildcard_posted' = [wildcard_posted EXCEPT
                                          ![b] = IF d.id = "wildcard" THEN TRUE ELSE @]
                /\ UNCHANGED wait_failed
    /\ last' = UgniStep("progress_datagram")
    /\ UNCHANGED <<ugni_frame, rdma_vars, wait_vars, smsg_vars>>

(***************************************************************************)
(* mca_btl_ugni_progress_local_smsg and mca_btl_ugni_progress_remote_smsg  *)
(* (called at lines 534-535): each polls its completion queue once and     *)
(* returns 1 for an event it has handled, 0 if there is none.              *)
(***************************************************************************)
mca_btl_ugni_progress_local_smsg ==
    /\ InStage("progress_local_smsg")
    /\ LET b == prog.i
           n == IF smsg_local_cq[b] > 0 THEN 1 ELSE 0
       IN  /\ smsg_local_cq' = [smsg_local_cq EXCEPT ![b] = @ - n]
           /\ prog' = AfterStage(n, n)
           /\ ugni_call' = UgniCall(b, NULL, n, "none", n > 0, FALSE)
    /\ last' = UgniStep("progress_local_smsg")
    /\ UNCHANGED <<ugni_frame, rdma_vars, wait_vars, conn_vars, smsg_remote_cq>>

mca_btl_ugni_progress_remote_smsg ==
    /\ InStage("progress_remote_smsg")
    /\ LET b == prog.i
           n == IF smsg_remote_cq[b] > 0 THEN 1 ELSE 0
       IN  /\ smsg_remote_cq' = [smsg_remote_cq EXCEPT ![b] = @ - n]
           /\ prog' = AfterStage(n, n)
           /\ ugni_call' = UgniCall(b, NULL, n, "none", n > 0, FALSE)
    /\ last' = UgniStep("progress_remote_smsg")
    /\ UNCHANGED <<ugni_frame, rdma_vars, wait_vars, conn_vars, smsg_local_cq>>

\* the retry policy (line 460): tries is the counter after its increment
\* (variant: only the number of tries decides)
RdmaGivesUp_tries_only(tries, recoverable) == tries >= rdma_max_retries

RdmaGivesUp(tries, recoverable) == tries >= rdma_max_retries \/ ~recoverable

(***************************************************************************)
(* mca_btl_ugni_progress_rdma (lines 427-480).  outcome is what the        *)
(* completion queue and GNI_GetCompleted report:                           *)
(*   NOT_DONE             no event (line 436)                              *)
(*   ERROR                an error without event data (line 440)           *)
(*   OVERRUN              the queue has overrun; the event is lost         *)
(*   GET_COMPLETED_ERROR  GNI_GetCompleted fails for the event (line 449)  *)
(*   SUCCESS              the transfer of the fragment is complete         *)
(*   RECOVERABLE, UNRECOVERABLE  the transfer has failed                   *)
(* asserts tells whether assertions are compiled in (line 444), posted     *)
(* whether a repost is accepted.                                           *)
(***************************************************************************)
RdmaOutcomes == {"NOT_DONE", "ERROR", "OVERRUN", "GET_COMPLETED_ERROR", "SUCCESS",
                 "RECOVERABLE", "UNRECOVERABLE"}

mca_btl_ugni_progress_rdma(outcome, asserts, posted) ==
    /\ InStage("progress_rdma")
    /\ last' = UgniStep("progress_rdma")
    /\ UNCHANGED <<cuda_frame, ipc_vars, init_vars, wait_vars, conn_vars, smsg_vars,
                 mpit_vars>>
    /\ LET b == prog.i
           cq == rdma_local_cq[b]
           f == Head(cq)
           tries == frags[f].tries + 1
           unhandled == outcome \in {"ERROR", "OVERRUN"}
           lost == outcome \in {"OVERRUN", "GET_COMPLETED_ERROR"}
           failed == outcome \in {"RECOVERABLE", "UNRECOVERABLE"}
           giveup == failed /\ RdmaGivesUp(tries, outcome = "RECOVERABLE")
       IN  IF outcome \in {"NOT_DONE", "ERROR"}
           THEN /\ outcome = "NOT_DONE" => cq = <<>>
                /\ UNCHANGED rdma_vars
                /\ IF unhandled /\ asserts
                   THEN /\ pc' = "aborted"
                        /\ prog' = prog
                        /\ ugni_call' = [UgniCall(b, NULL, 0, "none", FALSE, FALSE) EXCEPT !.event = outcome]
                   ELSE /\ pc' = pc
                        /\ prog' = AfterStage(IF unhandled THEN OMPI_ERROR ELSE 0, 0)
                        /\ ugni_call' = [UgniCall(b, NULL,
                                                 IF unhandled THEN OMPI_ERROR ELSE 0,
                                                 "none", FALSE, FALSE) EXCEPT !.event = outcome]
           ELSE /\ cq # <<>>
                /\ rdma_local_cq' = [rdma_local_cq EXCEPT ![b] = Tail(cq)]
                /\ IF lost
                   THEN /\ frags' = [frags EXCEPT ![f].state = "lost"]
                        /\ UNCHANGED <<callbacks, failed_frags>>
                        /\ IF unhandled /\ asserts
                           THEN pc' = "aborted" /\ prog' = prog
                           ELSE pc' = pc /\ prog' = AfterStage(OMPI_ERROR, 0)
                        /\ ugni_call' = [UgniCall(b, f, OMPI_ERROR, "none", TRUE, FALSE) EXCEPT !.event = outcome]
                   ELSE IF outcome = "SUCCESS"
                   THEN /\ frags' = [frags EXCEPT ![f] = FragAfterCallback(@)]
                        /\ callbacks' = [callbacks EXCEPT ![f] = Append(@, "SUCCESS")]
                        /\ UNCHANGED <<failed_frags, pc>>
                        /\ prog' = AfterStage(1, 1)
                        /\ ugni_call' = [UgniCall(b, f, 1, "SUCCESS", TRUE, FALSE) EXCEPT !.event = outcome]
                   ELSE IF giveup
                   THEN /\ frags' = [frags EXCEPT
                                        ![f] = FragAfterCallback([@ EXCEPT !.tries = tries])]
                        /\ callbacks' = [callbacks EXCEPT ![f] = Append(@, "ERROR")]
                        /\ UNCHANGED <<failed_frags, pc>>
                        /\ prog' = AfterStage(OMPI_ERROR, 1)
                        /\ ugni_call' = [UgniCall(b, f, OMPI_ERROR, "ERROR", TRUE, FALSE) EXCEPT !.event = outcome]
                   ELSE /\ frags' = [frags EXCEPT
                                        ![f] = RepostFrag([@ EXCEPT !.tries = tries], posted)]
                        /\ failed_frags' = [failed_frags EXCEPT
                                               ![b] = IF posted THEN @ ELSE Append(@, f)]
                        /\ UNCHANGED <<callbacks, pc>>
                        /\ prog' = AfterStage(0, 1)
                        /\ ugni_call' = [UgniCall(b, f, 0, "none", TRUE, TRUE) EXCEPT !.event = outcome]

(***************************************************************************)
(* The callers and the network.  A fragment is posted to a module with its *)
(* retry counter at 0 and the completion callback of the caller; the       *)
(* hardware delivers one completion event for each post.  A send that      *)
(* cannot be issued puts its endpoint on the wait list unless the flag     *)
(* says it is there; a send to an unconnected endpoint starts a            *)
(* connection.  Datagrams complete, messages and events arrive.            *)
(***************************************************************************)
PostRdma(f, b) ==
    /\ pc = "idle"
    /\ ~prog.running
    /\ frags[f].state = "free"
    /\ frags' = [frags EXCEPT ![f] = [state |-> "posted", btl |-> b, tries |-> 0,
                                      cbfunc |-> "complete"]]
    /\ ugni_call' = UgniCall(b, f, OMPI_SUCCESS, "none", FALSE, FALSE)
    /\ last' = UgniStep("post_rdma")
    /\ UNCHANGED <<ugni_frame, callbacks, rdma_local_cq, failed_frags, wait_vars, conn_vars,
                   smsg_vars, prog>>

GNI_CqEventArrives(f) ==
    /\ pc = "idle"
    /\ frags[f].state = "posted"
    /\ frags' = [frags EXCEPT ![f].state = "completed"]
    /\ rdma_local_cq' = [rdma_local_cq EXCEPT ![frags[f].btl] = Append(@, f)]
    /\ ugni_call' = UgniCall(frags[f].btl, f, 0, "none", FALSE, FALSE)
    /\ last' = UgniStep("cq_event")
    /\ UNCHANGED <<ugni_frame, callbacks, failed_frags, wait_vars, conn_vars, smsg_vars, prog>>

WaitListAppend(b, e) ==
    /\ pc = "idle"
    /\ ~prog.running
    /\ ~wait_listed[b][e]
    /\ ep_wait_list' = [ep_wait_list EXCEPT ![b] = Append(@, e)]
    /\ wait_listed' = [wait_listed EXCEPT ![b][e] = TRUE]
    /\ ugni_call' = UgniCall(b, e, 0, "none", FALSE, FALSE)
    /\ last' = UgniStep("wait_list_append")
    /\ UNCHANGED <<ugni_frame, rdma_vars, conn_vars, smsg_vars, prog>>

ConnectStart(b, e) ==
    /\ pc = "idle"
    /\ ~prog.running
    /\ ep_state[b][e] = "UNCONNECTED"
    /\ ep_state' = [ep_state EXCEPT ![b][e] = "CONNECTING"]
    /\ ugni_call' = UgniCall(b, e, 0, "none", FALSE, FALSE)
    /\ last' = UgniStep("connect_start")
    /\ UNCHANGED <<ugni_frame, rdma_vars, wait_vars, datagram, wildcard_posted, wait_failed, mailbox,
                   smsg_vars, prog>>

DatagramArrives(b, id, e) ==
    /\ pc = "idle"
    /\ datagram[b] = NoDatagram
    /\ id = "wildcard" => wildcard_posted[b]
    /\ id = "directed" => ep_state[b][e] = "CONNECTING"
    /\ datagram' = [datagram EXCEPT ![b] = [id |-> id, ep |-> e]]
    /\ wildcard_posted' = [wildcard_posted EXCEPT ![b] = IF id = "wildcard" THEN FALSE ELSE @]
    /\ ugni_call' = UgniCall(b, e, 0, "none", FALSE, FALSE)
    /\ last' = UgniStep("datagram_arrives")
    /\ UNCHANGED <<ugni_frame, rdma_vars, wait_vars, ep_state, wait_failed, mailbox, smsg_vars, prog>>

MessageArrives(b, e) ==
    /\ pc = "idle"
    /\ mailbox[b][e] < MaxMsgs
    /\ mailbox' = [mailbox EXCEPT ![b][e] = @ + 1]
    /\ ugni_call' = UgniCall(b, e, 0, "none", FALSE, FALSE)
    /\ last' = UgniStep("message_arrives")
    /\ UNCHANGED <<ugni_frame, rdma_vars, wait_vars, ep_state, datagram, wildcard_posted, wait_failed,
                   smsg_vars, prog>>

SmsgEventArrives(b, side) ==
    /\ pc = "idle"
    /\ IF side = "local"
       THEN /\ smsg_local_cq[b] < MaxMsgs
            /\ smsg_local_cq' = [smsg_local_cq EXCEPT ![b] = @ + 1]
            /\ UNCHANGED smsg_remote_cq
       ELSE /\ smsg_remote_cq[b] < MaxMsgs
            /\ smsg_remote_cq' = [smsg_remote_cq EXCEPT ![b] = @ + 1]
            /\ UNCHANGED smsg_local_cq
    /\ ugni_call' = UgniCall(b, NULL, 0, "none", FALSE, FALSE)
    /\ last' = UgniStep("smsg_event")
    /\ UNCHANGED <<ugni_frame, rdma_vars, wait_vars, conn_vars, prog>>

(***************************************************************************)
(* Specifications.  SpecReg is the layer with its registration calls,      *)
(* SpecPool the layer with its event pools, Spec both together.            *)
(***************************************************************************)
\* the outcomes of one init call: the library does not load, or it loads and
\* there is no context, or there is one and the rest runs up to fail
InitStep ==
    \/ mca_common_cuda_init(1, "VALID", [at |-> "none", dir |-> "ipc"], {})
    \/ \E ctx \in {"ERROR", "NULL"} :
           mca_common_cuda_init(0, ctx, [at |-> "none", dir |-> "ipc"], {})
    \/ \E fail \in FailPoints :
           \E failing \in (IF fail.at = "setup" THEN {{}} ELSE SUBSET Ptrs) :
               mca_common_cuda_init(0, "VALID", fail, failing)

RegisterStep ==
    \E r \in Regions : \E failing \in {{}, {r.ptr}} : mca_common_cuda_register(r, failing)

\* the registration that makes init known to the OPAL layer
FirstRegisterStep ==
    /\ num_requests = 0
    /\ mca_common_cuda_register([ptr |-> 1, amount |-> 4096], {})

\* the init calls of the pool specification: every outcome, the driver
\* accepting the delayed registration
PoolInitStep ==
    \/ mca_common_cuda_init(1, "VALID", [at |-> "none", dir |-> "ipc"], {})
    \/ \E ctx \in {"ERROR", "NULL"} :
           mca_common_cuda_init(0, ctx, [at |-> "none", dir |-> "ipc"], {})
    \/ \E fail \in FailPoints : mca_common_cuda_init(0, "VALID", fail, {})

UnregisterStep == \E ptr \in Ptrs : mca_common_cuda_unregister(ptr)

RecordStep ==
    \E d \in {"dtoh", "htod"}, res \in DriverResults : mca_common_cuda_record_event(d, NextFrag(d), res)

MemcpyStep ==
    \E copyres \in DriverResults, recres \in DriverResults,
       qres \in {"SUCCESS", "NOT_READY", "ERROR"} :
        mca_common_cuda_memcpy(NextFrag("ipc"), copyres, recres, qres)

MemcpyWaitStep == \E qres \in {"SUCCESS", "ERROR"} : mca_common_cuda_memcpy_wait(qres)

PollStep ==
    \E d \in Dirs, qres \in {"SUCCESS", "NOT_READY", "ERROR"} : progress_one_cuda_event(d, qres)

EventStep == \E d \in Dirs, i \in Slots : cuEventCompletes(d, i)

NextReg ==
    \/ mca_common_cuda_register_mca_variables
    \/ InitStep
    \/ RegisterStep
    \/ UnregisterStep

NextPool ==
    \/ PoolInitStep
    \/ FirstRegisterStep
    \/ RecordStep
    \/ MemcpyStep
    \/ MemcpyWaitStep
    \/ PollStep
    \/ EventStep

ConstructStep ==
    \E r \in RegIds :
        \/ \E handleres \in {"CUDA_SUCCESS", "CUDA_ERROR_INVALID_HANDLE"} :
               mca_common_cuda_construct_event_and_handle(r, "CUDA_SUCCESS", handleres)
        \/ mca_common_cuda_construct_event_and_handle(r, "CUDA_ERROR_OUT_OF_MEMORY",
                                                      "CUDA_ERROR_INVALID_HANDLE")

\* the construction as the peer's side needs it: both driver calls succeed
ConstructOkStep ==
    \E r \in RegIds :
        mca_common_cuda_construct_event_and_handle(r, "CUDA_SUCCESS", "CUDA_SUCCESS")

GetMemHandleStep ==
    \E base \in DevicePtrs, r \in RegIds :
        \/ \E fail \in GetMemHandleFailures : cuda_getmemhandle(base, r, "ok", fail)
        \/ cuda_getmemhandle(base, r, "abort", "none")
        \/ \E fail \in GetMemHandleFailures : cuda_getmemhandle(base, r, "ignored", fail)

\* an export as the specifications of the import and of the round trip need
\* it: of the base of an allocation, every driver call succeeding
ExportStep ==
    \E a \in Allocations, r \in RegIds : cuda_getmemhandle(a.base, r, "ok", "none")

ReceiveHandleStep == \E p \in RegIds, r \in RegIds : ReceiveHandle(p, r)

OpenMemHandleStep ==
    \E p \in RegIds : \E res \in CUresults \ {"CUDA_ERROR_ALREADY_MAPPED"} :
        cuda_openmemhandle(p, res)

CloseMemHandleStep ==
    \E p \in RegIds : \E res \in {"CUDA_SUCCESS", "CUDA_ERROR_INVALID_HANDLE"} :
        cuda_closememhandle(p, res)

\* the round trip is followed for the first registration of the peer
RoundTripReceiveStep == \E r \in RegIds : ReceiveHandle(1, r)

RoundTripOpenStep == cuda_openmemhandle(1, "CUDA_SUCCESS")

\* the outcomes of one wait: no failure; or the open fails and leaves some
\* value in the event; or the record or the wait fails
WaitStep ==
    \/ mca_common_wait_stream_synchronize(1, "CUDA_SUCCESS", "CUDA_SUCCESS",
                                          "CUDA_SUCCESS", NULL)
    \/ \E garbage \in EventIds \cup {NULL} :
           mca_common_wait_stream_synchronize(1, "CUDA_ERROR_INVALID_HANDLE",
                                              "CUDA_SUCCESS", "CUDA_SUCCESS", garbage)
    \/ mca_common_wait_stream_synchronize(1, "CUDA_SUCCESS", "CUDA_ERROR_OUT_OF_MEMORY",
                                          "CUDA_SUCCESS", NULL)
    \/ mca_common_wait_stream_synchronize(1, "CUDA_SUCCESS", "CUDA_SUCCESS",
                                          "CUDA_ERROR_OUT_OF_MEMORY", NULL)

\* the owner's side of the exchange
NextExport ==
    \/ ConstructStep
    \/ DeviceWrite
    \/ GetMemHandleStep

\* the peer's import and release of the handles
NextImport ==
    \/ ConstructOkStep
    \/ ExportStep
    \/ ReceiveHandleStep
    \/ OpenMemHandleStep
    \/ CloseMemHandleStep

\* export, import, wait and copy
NextRoundTrip ==
    \/ ConstructOkStep
    \/ DeviceWrite
    \/ DeviceWriteCompletes
    \/ ExportStep
    \/ RoundTripReceiveStep
    \/ RoundTripOpenStep
    \/ WaitStep
    \/ PeerCopy

NextIpc == NextExport \/ NextImport \/ NextRoundTrip

\* the steps of the uGNI component
PostStep == \E f \in Frags, b \in Btls : PostRdma(f, b)

CqEventStep == \E f \in Frags : GNI_CqEventArrives(f)

RetryFailedStep == \E failing \in SUBSET Frags : mca_btl_ugni_retry_failed(failing)

WaitListStep == \E outcome \in [Eps -> WaitOutcomes] : mca_btl_ugni_progress_wait_list(outcome)

DatagramStep ==
    \E waitres \in {"SUCCESS", "ERROR"}, kept \in BOOLEAN, connres \in ConnectResults :
        mca_btl_ugni_progress_datagram(waitres, kept, connres)

RdmaStep ==
    \E outcome \in RdmaOutcomes, asserts \in BOOLEAN, posted \in BOOLEAN :
        mca_btl_ugni_progress_rdma(outcome, asserts, posted)

\* the progress function with its calls
ProgressStep ==
    \/ mca_btl_ugni_component_progress
    \/ RetryFailedStep
    \/ WaitListStep
    \/ DatagramStep
    \/ mca_btl_ugni_progress_local_smsg
    \/ mca_btl_ugni_progress_remote_smsg
    \/ RdmaStep
    \/ mca_btl_ugni_component_progress_return

\* sends that could not proceed put their endpoints on the wait lists
WaitListWorkStep == \E b \in Btls, e \in Eps : WaitListAppend(b, e)

\* wait lists under the progress function
NextWaitList ==
    \/ WaitListWorkStep
    \/ ProgressStep

(***************************************************************************)
(* The component functions of src/unnamed/part_001.                        *)
(* btl_ugni_component_register (lines 53-214) sets the defaults of the     *)
(* limits and registers them as parameters; v and w are the values of      *)
(* smsg_limit and fma_limit after registration: the defaults 0 and 1024,   *)
(* or what the user configured.                                            *)
(***************************************************************************)
SmsgLimits == {-1, 0, 1, 256, 8192, 16384, 16385, 65536, 2147483647}
FmaLimits == {-1, 0, 1024, 65536, 65537, 2147483647}
JobSizes == {1, 512, 513, 600, 1024, 1025, 8192, 8193, 16384, 16385, 100000}

\* everything of the uGNI modules that the component functions leave alone
progress_vars == <<rdma_vars, wait_vars, conn_vars, smsg_vars, prog, ugni_call>>
component_frame == <<cuda_frame, ipc_vars, pc, progress_vars, mpit_vars>>

btl_ugni_component_register(v, w) ==
    /\ pc = "idle"
    /\ component.stage = "loaded"
    /\ component' = [component EXCEPT !.stage = "registered",
                                      !.btl_eager_limit = 8 * 1024,
                                      !.btl_rdma_pipeline_send_length = 8 * 1024,
                                      !.ugni_smsg_limit = v,
                                      !.ugni_fma_limit = w]
    /\ init_call' = ComponentCall("component_register", v, w, 0, 0, {}, FALSE, OMPI_SUCCESS,
                                  Unset, <<>>)
    /\ last' = UgniStep("component_register")
    /\ UNCHANGED component_frame

\* btl_ugni_component_open (lines 216-223)
btl_ugni_component_open ==
    /\ pc = "idle"
    /\ component.stage = "registered"
    /\ component' = [component EXCEPT !.stage = "opened",
                                      !.ugni_num_btls = 0,
                                      !.modules = "NULL"]
    /\ init_call' = ComponentCall("component_open", component.ugni_smsg_limit,
                             component.ugni_fma_limit, 0, 0, {}, FALSE, OMPI_SUCCESS,
                                  Unset, <<>>)
    /\ last' = UgniStep("component_open")
    /\ UNCHANGED component_frame

\* (variant: the rank counts at the boundaries fall into the next band)
AutoSmsgLimit_exclusive(nprocs) ==
    IF nprocs < 512 THEN 8192
    ELSE IF nprocs < 1024 THEN 2048
    ELSE IF nprocs < 8192 THEN 1024
    ELSE IF nprocs < 16384 THEN 512
    ELSE 256

\* the limit chosen from the number of ranks (lines 260-270)
AutoSmsgLimit(nprocs) ==
    IF nprocs <= 512 THEN 8192
    ELSE IF nprocs <= 1024 THEN 2048
    ELSE IF nprocs <= 8192 THEN 1024
    ELSE IF nprocs <= 16384 THEN 512
    ELSE 256

\* ugni_smsg_limit after mca_btl_ugni_smsg_setup (lines 258-271)
SmsgLimitAfterSetup(limit, nprocs) == IF 0 = limit THEN AutoSmsgLimit(nprocs) ELSE limit

\* smsg_max_data (lines 273-274): the limit less the header; the field
\* holds the difference as a signed number
SmsgMaxData(limit) == limit - SendFragHdrSize

\* btl_eager_limit after lines 345-347: replaced by the payload maximum
\* only when the mailbox limit equals it
EagerLimitAfterSetup(limit, eager, maxdata) == IF limit = eager THEN maxdata ELSE eager

\* (variant: the mailbox limit is capped like the FMA limit)
SmsgLimitClamped_64k(limit) == IF 65536 < limit THEN 65536 ELSE limit

\* the cap of lines 302-304
SmsgLimitClamped(limit) == IF 16384 < limit THEN 16384 ELSE limit

\* the cap of lines 306-308
FmaLimitClamped(limit) == IF 65536 < limit THEN 65536 ELSE limit

\* (variant: the result of mca_btl_ugni_module_init is not looked at)
ModuleInitFails_ignored(failing, i) == FALSE

\* the test of line 356 for module i, failing being the module whose
\* mca_btl_ugni_module_init fails (0: none)
ModuleInitFails(failing, i) == failing = i

\* the modules that the loop of lines 351-363 has put into base_modules
\* when it ends or returns: those before the first whose init failed
ModulesStored(failing, devices) ==
    {i \in 1..devices : \A j \in 1..i : ~ModuleInitFails(failing, j)}

(***************************************************************************)
(* mca_btl_ugni_component_init (lines 292-370).  nprocs is the number of   *)
(* ranks, devices the device count found by ompi_common_ugni_init; libres, *)
(* tableres, arrayres and sizeres tell whether ompi_common_ugni_init, the  *)
(* two calloc calls and GNI_SmsgBufferSizeNeeded succeed, failing is the   *)
(* module whose initialization fails (0: none).  Every failure returns     *)
(* NULL at once, leaving the component as it is at that point.  The field  *)
(* initialized holds the modules whose mca_btl_ugni_module_init succeeded. *)
(***************************************************************************)
mca_btl_ugni_component_init(nprocs, devices, libres, tableres, arrayres, sizeres, failing) ==
    /\ pc = "idle"
    /\ component.stage = "opened"
    /\ LET smsg == SmsgLimitClamped(component.ugni_smsg_limit)
           fma == FmaLimitClamped(component.ugni_fma_limit)
           clamped == [component EXCEPT !.ugni_smsg_limit = smsg, !.ugni_fma_limit = fma]
           counted == [clamped EXCEPT !.ugni_num_btls = devices]
           table == [counted EXCEPT !.modules = "modules"]
           setup == [table EXCEPT !.ugni_smsg_limit = SmsgLimitAfterSetup(smsg, nprocs),
                                  !.smsg_max_data =
                                      SmsgMaxData(SmsgLimitAfterSetup(smsg, nprocs))]
           eager == EagerLimitAfterSetup(setup.ugni_smsg_limit, setup.btl_eager_limit,
                                         setup.smsg_max_data)
           limits == [setup EXCEPT !.btl_eager_limit = eager,
                                   !.btl_rdma_pipeline_send_length = eager]
           stored == ModulesStored(failing, devices)
           faults == {f \in {"ompi_common_ugni_init", "calloc", "mca_btl_ugni_smsg_setup",
                              "mca_btl_ugni_module_init"} :
                         \/ f = "ompi_common_ugni_init" /\ libres # "SUCCESS"
                         \/ f = "calloc" /\ (tableres # "SUCCESS" \/ arrayres # "SUCCESS")
                         \/ f = "mca_btl_ugni_smsg_setup" /\ sizeres # "SUCCESS"
                         \/ f = "mca_btl_ugni_module_init" /\ failing \in 1..devices}
           \* mca_btl_ugni_module_init has succeeded for these
           good == stored \ {failing}
           Returns(c, ran, rc, num, array) ==
               /\ component' = [c EXCEPT !.stage = IF rc = "NULL" THEN "failed"
                                                   ELSE "initialized"]
               /\ init_call' = ComponentCall("component_init", component.ugni_smsg_limit,
                                        component.ugni_fma_limit, nprocs, devices,
                                        faults, ran, rc, num, array)
       IN  IF libres # "SUCCESS"
           THEN Returns(clamped, FALSE, "NULL", Unset, <<>>)
           ELSE IF tableres # "SUCCESS"
           THEN Returns(counted, FALSE, "NULL", Unset, <<>>)
           ELSE IF arrayres # "SUCCESS"
           THEN Returns(table, FALSE, "NULL", Unset, <<>>)
           ELSE IF sizeres # "SUCCESS"
           THEN Returns(setup, TRUE, "NULL", Unset, <<>>)
           ELSE IF stored # 1..devices
           THEN Returns([limits EXCEPT !.initialized = good], TRUE, "NULL", Unset, <<>>)
           ELSE Returns([limits EXCEPT !.initialized = good], TRUE, "base_modules",
                        devices, [i \in 1..devices |-> i])
    /\ last' = UgniStep("component_init")
    /\ UNCHANGED component_frame

\* the modules the loop of mca_btl_ugni_component_progress visits (line 528)
ProgressLoopModules(c) == 1..c.ugni_num_btls

\* the modules among them whose memory is not there or was not initialized
NotInitialized(c) == {i \in ProgressLoopModules(c) : c.modules = "NULL" \/ i \notin c.initialized}

\* what a pass over modules that are not initialized can give: work on
\* memory that is not a module is undefined
UndefinedProgress == {"0", "count", "fault"}

\* mca_btl_ugni_component_progress (lines 522-541) called on a component
\* whose mca_btl_ugni_component_init has not returned its modules: the loop
\* runs over ugni_num_btls entries of modules; an initialized module of such
\* a component has no work
ProgressBeforeInit(outcome) ==
    /\ pc = "idle"
    /\ component.stage \in {"opened", "failed"}
    /\ NotInitialized(component) = {} => outcome = "0"
    /\ init_call' = ComponentCall("component_progress", component.ugni_smsg_limit,
                                  component.ugni_fma_limit, 0, 0, {}, FALSE, outcome, Unset,
                                  [i \in ProgressLoopModules(component) |-> i])
    /\ last' = UgniStep("component_progress")
    /\ UNCHANGED <<component, component_frame>>

RegisterComponentStep ==
    \E v \in SmsgLimits, w \in FmaLimits : btl_ugni_component_register(v, w)

InitComponentStep ==
    \E nprocs \in JobSizes, devices \in 0..NumBtls,
       libres \in {"SUCCESS", "ERROR"}, tableres \in {"SUCCESS", "ERROR"},
       arrayres \in {"SUCCESS", "ERROR"}, sizeres \in {"SUCCESS", "ERROR"} :
      \E failing \in 0..devices :
        mca_btl_ugni_component_init(nprocs, devices, libres, tableres, arrayres, sizeres,
                                    failing)

\* the component from load to the end of its initialization
NextInit ==
    \/ RegisterComponentStep
    \/ btl_ugni_component_open
    \/ InitComponentStep
    \/ \E outcome \in UndefinedProgress : ProgressBeforeInit(outcome)

\* connection attempts of the first module: sends start connections,
\* datagrams complete, messages arrive in the mailboxes
ConnectionStep ==
    /\ ~prog.running
    /\ \E e \in Eps :
           \/ ConnectStart(1, e)
           \/ \E id \in {"wildcard", "directed"} : DatagramArrives(1, id, e)
           \/ MessageArrives(1, e)

\* connections under the progress function
NextDatagram ==
    \/ ConnectionStep
    \/ ProgressStep

\* RDMA transfers under the progress function
NextRdma ==
    \/ PostStep
    \/ CqEventStep
    \/ ProgressStep

\* the work of every kind that the progress function finds, arriving
\* between two invocations: a transfer of the first fragment by the first
\* module, the first endpoint of the last module on the wait list, a
\* wildcard datagram and a message in a mailbox of the first module, an
\* event in an SMSG queue of the last module
WorkStep ==
    /\ ~prog.running
    /\ \/ PostRdma(1, 1)
       \/ GNI_CqEventArrives(1)
       \/ WaitListAppend(NumBtls, 1)
       \/ DatagramArrives(1, "wildcard", 1)
       \/ MessageArrives(1, 1)
       \/ \E side \in {"local", "remote"} : SmsgEventArrives(NumBtls, side)

NextProgress ==
    \/ WorkStep
    \/ ProgressStep

NextUgni == NextRdma \/ NextProgress \/ (\E b \in Btls, e \in Eps :
                                             \/ ConnectStart(b, e)
                                             \/ DatagramArrives(b, "directed", e))

(***************************************************************************)
(* The tool interface: MPI_T_pvar_reset (src/unnamed/part_000).  A session *)
(* holds a list of handles, each bound to a performance variable that is  *)
(* read-only or not and holds a value.                                     *)
(***************************************************************************)
mpit_is_initialized == mpit.initialized
mpit_lock(l) == l + 1
mpit_unlock(l) == l - 1
mca_base_pvar_is_readonly(p) == p.readonly

\* results of resetting one handle
ResetResults == {"SUCCESS", "ERROR"}

\* mca_base_pvar_handle_reset: a variable that cannot be written is refused,
\* otherwise the driver of the variable decides and a success clears the value
HandleResetResult(p, res) == IF p.readonly THEN "ERROR" ELSE res
mca_base_pvar_handle_reset(p, res) ==
    IF HandleResetResult(p, res) = "SUCCESS" THEN [p EXCEPT !.value = 0] ELSE p

\* the values an int that was never assigned can hold when it is returned
Indeterminate == {"MPI_SUCCESS", "MPI_T_ERR_PVAR_NO_WRITE", "OTHER"}

\* the loop over session->handles: st.ret is "unassigned" until a reset fails
RECURSIVE ResetAllLoop(_, _, _)
ResetAllLoop(st, n, resetres) ==
    IF n > Len(mpit.session) THEN st
    ELSE LET h == mpit.session[n]
             p == st.pvar[h]
         IN  IF ~mca_base_pvar_is_readonly(p)
             THEN ResetAllLoop(
                      [pvar |-> [st.pvar EXCEPT ![h] =
                                     mca_base_pvar_handle_reset(p, resetres[h])],
                       attempted |-> Append(st.attempted,
                                            <<h, HandleResetResult(p, resetres[h])>>),
                       ret |-> IF HandleResetResult(p, resetres[h]) # "SUCCESS"
                               THEN "MPI_T_ERR_PVAR_NO_WRITE" ELSE st.ret],
                      n + 1, resetres)
             ELSE ResetAllLoop(st, n + 1, resetres)

\* the return code of the single-handle path
SingleReturn(res) == IF res = "SUCCESS" THEN "MPI_SUCCESS" ELSE "ERROR"

MPI_T_pvar_reset(handle, resetres, garbage) ==
    /\ handle # MPI_T_PVAR_ALL_HANDLES => handle \in Range(mpit.session)
    /\ IF ~mpit_is_initialized
       THEN /\ mpit' = mpit
            /\ pvar_call' = PvarCall("MPI_T_pvar_reset", handle,
                                     "MPI_T_ERR_NOT_INITIALIZED", 0, 0, <<>>)
       ELSE IF handle = MPI_T_PVAR_ALL_HANDLES
       THEN LET end == ResetAllLoop([pvar |-> mpit.pvar, attempted |-> <<>>,
                                     ret |-> "unassigned"], 1, resetres)
            IN  /\ mpit' = [mpit EXCEPT !.pvar = end.pvar,
                                        !.lock = mpit_unlock(mpit_lock(mpit.lock))]
                /\ pvar_call' = PvarCall("MPI_T_pvar_reset", handle,
                                         IF end.ret = "unassigned" THEN garbage
                                         ELSE end.ret,
                                         1, 1, end.attempted)
       ELSE LET p == mpit.pvar[handle]
            IN  /\ mpit' = [mpit EXCEPT !.pvar[handle] =
                                            mca_base_pvar_handle_reset(p, resetres[handle]),
                                        !.lock = mpit_unlock(mpit_lock(mpit.lock))]
                /\ pvar_call' = PvarCall("MPI_T_pvar_reset", handle,
                                         SingleReturn(HandleResetResult(p, resetres[handle])),
                                         1, 1,
                                         <<<<handle, HandleResetResult(p, resetres[handle])>>>>)
    /\ UNCHANGED <<cuda_frame, ipc_vars, pc, last, ugni_vars>>

\* the tool starts and stops the interface, binds handles and the program
\* updates the variables
MPI_T_init_thread ==
    /\ ~mpit.initialized
    /\ mpit' = [mpit EXCEPT !.initialized = TRUE]
    /\ pvar_call' = PvarCall("MPI_T_init_thread", MPI_T_PVAR_ALL_HANDLES, "MPI_SUCCESS",
                             0, 0, <<>>)
    /\ UNCHANGED <<cuda_frame, ipc_vars, pc, last, ugni_vars>>

MPI_T_finalize ==
    /\ mpit.initialized
    /\ mpit' = [mpit EXCEPT !.initialized = FALSE]
    /\ pvar_call' = PvarCall("MPI_T_finalize", MPI_T_PVAR_ALL_HANDLES, "MPI_SUCCESS",
                             0, 0, <<>>)
    /\ UNCHANGED <<cuda_frame, ipc_vars, pc, last, ugni_vars>>

MPI_T_pvar_handle_alloc(h, readonly) ==
    /\ mpit.initialized
    /\ h \notin Range(mpit.session)
    /\ mpit' = [mpit EXCEPT !.session = Append(@, h),
                            !.pvar[h] = [readonly |-> readonly, value |-> 0]]
    /\ pvar_call' = PvarCall("MPI_T_pvar_handle_alloc", h, "MPI_SUCCESS", 0, 0, <<>>)
    /\ UNCHANGED <<cuda_frame, ipc_vars, pc, last, ugni_vars>>

PvarUpdate(h) ==
    /\ h \in Range(mpit.session)
    /\ mpit.pvar[h].value < MaxSamples
    /\ mpit' = [mpit EXCEPT !.pvar[h].value = @ + 1]
    /\ pvar_call' = PvarCall("update", h, "none", 0, 0, <<>>)
    /\ UNCHANGED <<cuda_frame, ipc_vars, pc, last, ugni_vars>>

NextPvar ==
    \/ \E handle \in Handles \cup {MPI_T_PVAR_ALL_HANDLES},
          resetres \in [Handles -> ResetResults], garbage \in Indeterminate :
           MPI_T_pvar_reset(handle, resetres, garbage)
    \/ MPI_T_init_thread
    \/ MPI_T_finalize
    \/ \E h \in Handles, readonly \in BOOLEAN : MPI_T_pvar_handle_alloc(h, readonly)
    \/ \E h \in Handles : PvarUpdate(h)

Next == NextReg \/ NextPool \/ NextIpc \/ NextUgni \/ NextInit \/ NextPvar

\* the pools do not read the registration parameter
InitPool == Init /\ ompi_mpi_cuda_support /\ mca_params.register_memory

\* the layer after its first registration request and a successful init
LayerInitialized ==
    /\ ompi_mpi_cuda_support = TRUE
    /\ mca_params = [register_memory |-> TRUE, memcpy_async |-> 1]
    /\ registered = TRUE
    /\ common_cuda_initialized = TRUE
    /\ common_cuda_init_function_added = TRUE
    /\ mca_common_cuda_enabled = TRUE
    /\ mca_common_cuda_register_memory = TRUE
    /\ mca_common_cuda_async = 1
    /\ common_cuda_memory_registrations = <<>>
    /\ num_requests = 1
    /\ hostRegisterCalls = <<[ptr |-> 1, amount |-> 4096]>>
    /\ pinned = {1}
    /\ cuda_event_array = [d \in Dirs |-> [i \in Slots |-> "complete"]]
    /\ cuda_event_frag_array = [d \in Dirs |-> [i \in Slots |-> Uninit]]
    /\ cuda_event_first_avail = [d \in Dirs |-> 0]
    /\ cuda_event_first_used = [d \in Dirs |-> 0]
    /\ cuda_event_num_used = [d \in Dirs |-> 0]
    /\ recorded = [d \in Dirs |-> <<>>]
    /\ polled = [d \in Dirs |-> <<>>]
    /\ pc = "idle"
    /\ last = Call("init", "none", "SUCCESS", NULL, 0,
                   {<<"cuCtxGetCurrent", 0>>, <<"cuEventCreate", 0>>,
                    <<"cuStreamCreate", 0>>, <<"cuMemHostRegister", 1>>})

\* the exchange of handles starts from the initialized layer, with no
\* registration constructed
IpcInit ==
    /\ cuda_reg = [r \in RegIds |-> NewReg]
    /\ rget_reg = [p \in RegIds |-> NewRgetReg]
    /\ cu_event = [e \in EventIds |-> NotCreated]
    /\ peer_mapped = {}
    /\ issued = 0
    /\ completed = 0
    /\ export_mark = [r \in RegIds |-> -1]
    /\ peer_barrier = 0
    /\ ipc_call = NoIpcCall

InitIpc == LayerInitialized /\ UgniInit /\ IpcInit /\ MpitStart

\* the program before the uGNI component is registered
InitComponent ==
    /\ LayerInitialized
    /\ IpcInit
    /\ UgniModulesInit
    /\ component = ComponentLoaded
    /\ init_call = NoComponentCall
    /\ MpitStart

\* the uGNI component does not read the state of the CUDA layer
InitUgni == InitIpc

SpecReg == Init /\ [][NextReg]_vars
SpecRdma == InitUgni /\ [][NextRdma]_vars
SpecProgress == InitUgni /\ [][NextProgress]_vars
SpecExport == InitIpc /\ [][NextExport]_vars
SpecImport == InitIpc /\ [][NextImport]_vars
SpecRoundTrip == InitIpc /\ [][NextRoundTrip]_vars
SpecInit == InitComponent /\ [][NextInit]_vars
SpecDatagram == InitUgni /\ [][NextDatagram]_vars
SpecWaitList == InitUgni /\ [][NextWaitList]_vars
SpecPool == InitPool /\ [][NextPool]_vars

\* The pools of an initialized layer in asynchronous mode when cuEventQuery gives
\* no hard error: events are recorded, complete and are polled.  Each
\* recorded event completes in the end and each pool is polled again and
\* again; a poll that finds its head not ready changes nothing.
LivePoll(d) == \E qres \in {"SUCCESS", "NOT_READY"} : progress_one_cuda_event(d, qres)
LiveMemcpy == \E recres \in DriverResults :
                  mca_common_cuda_memcpy(NextFrag("ipc"), "SUCCESS", recres, "NOT_READY")
NextPoolLive ==
    \/ RecordStep
    \/ LiveMemcpy
    \/ EventStep
    \/ \E d \in Dirs : LivePoll(d)
PoolFairness ==
    /\ \A d \in Dirs : \A i \in Slots : WF_vars(cuEventCompletes(d, i))
    /\ \A d \in Dirs : WF_vars(LivePoll(d))
SpecPoolLive == InitIpc /\ [][NextPoolLive]_vars /\ PoolFairness
SpecPvar == InitIpc /\ [][NextPvar]_vars
Spec == Init /\ [][Next]_vars


(***************************************************************************)
(* Properties of the event pools (checked under SpecPool).                 *)
(***************************************************************************)
IsPrefix(a, b) == Len(a) <= Len(b) /\ SubSeq(b, 1, Len(a)) = a

\* the step is a call of a record function (record_dtoh/htod_event, memcpy)
\* on pool d that starts in this step
RecordCall(d) == pc = "idle" /\ last'.op \in {"record", "memcpy"} /\ last'.dir = d

\* the step is a call of the poll function of pool d
PollCall(d) == pc = "idle" /\ last'.op = "progress_one" /\ last'.dir = d

\* everything pool d consists of stays as it is
PoolUnchanged(d) ==
    /\ cuda_event_num_used'[d] = cuda_event_num_used[d]
    /\ cuda_event_first_avail'[d] = cuda_event_first_avail[d]
    /\ cuda_event_first_used'[d] = cuda_event_first_used[d]
    /\ cuda_event_frag_array'[d] = cuda_event_frag_array[d]
    /\ cuda_event_array'[d] = cuda_event_array[d]
    /\ recorded'[d] = recorded[d]
    /\ polled'[d] = polled[d]

\* C1: in every reachable state the num_used counter of every pool lies
\* between 0 and the capacity cuda_event_max.
C1_NumUsedWithinCapacity ==
    \A d \in Dirs : cuda_event_num_used[d] >= 0 /\ cuda_event_num_used[d] <= cuda_event_max

\* a pool that is full again after descriptors were taken out of it
C1_Witness ==
    \E d \in Dirs : cuda_event_num_used[d] = cuda_event_max /\ Len(polled[d]) >= 1

\* C2: the descriptors taken out of a pool (returned by a successful poll or,
\* in the synchronous copy, completed by the copy call's own query loop) are
\* the descriptors stored in it, in the order they were stored: none twice,
\* none skipped, none before an earlier one; the ones not yet taken out are
\* the num_used last stored ones.
C2_PollsAreFifo ==
    \A d \in Dirs :
        /\ IsPrefix(polled[d], recorded[d])
        /\ Len(recorded[d]) - Len(polled[d]) = cuda_event_num_used[d]
        /\ \A i, j \in 1 .. Len(recorded[d]) : recorded[d][i] = recorded[d][j] => i = j

\* more descriptors went through one pool than it has slots: the cursors wrapped
C2_Witness ==
    \E d \in Dirs : Len(polled[d]) > cuda_event_max /\ last.op = "progress_one" /\ last.rc = "1"

\* C3: both cursors lie in [0, capacity), first_avail = (first_used +
\* num_used) mod capacity, and the num_used slots from first_used on hold
\* the stored descriptors that were not taken out yet, oldest first.
C3_CircularInterval ==
    \A d \in Dirs :
        /\ cuda_event_first_avail[d] \in Slots
        /\ cuda_event_first_used[d] \in Slots
        /\ cuda_event_first_avail[d] =
               (cuda_event_first_used[d] + cuda_event_num_used[d]) % cuda_event_max
        /\ \A k \in 0 .. (cuda_event_num_used[d] - 1) :
               /\ Len(polled[d]) + k + 1 <= Len(recorded[d])
               /\ cuda_event_frag_array[d][(cuda_event_first_used[d] + k) % cuda_event_max]
                      = recorded[d][Len(polled[d]) + k + 1]

\* an interval in use that runs over the end of the array
C3_Witness ==
    \E d \in Dirs : /\ cuda_event_num_used[d] >= 2
                    /\ cuda_event_first_used[d] + cuda_event_num_used[d] > cuda_event_max
                    /\ cuda_event_first_avail[d] <= cuda_event_first_used[d]

\* C4: a record call on a full pool returns the out-of-resources error,
\* makes no driver call (no copy, no event record) and leaves the pool as it
\* is; a record call returns that error only on a full pool, so it succeeds
\* again once a poll has freed a slot.
C4_FullPoolRefusesRecord ==
    [][\A d \in Dirs :
          RecordCall(d) =>
              /\ cuda_event_num_used[d] = cuda_event_max =>
                     /\ last'.rc = "OUT_OF_RESOURCE"
                     /\ last'.calls = {}
                     /\ PoolUnchanged(d)
              /\ last'.rc = "OUT_OF_RESOURCE" => cuda_event_num_used[d] = cuda_event_max
              /\ (cuda_event_num_used[d] < cuda_event_max /\ last'.rc = "SUCCESS"
                     /\ mca_common_cuda_async # 0) =>
                     cuda_event_num_used'[d] = cuda_event_num_used[d] + 1]_vars

\* a pool that was refilled after a poll refuses the next record
C4_Witness ==
    \E d \in Dirs : /\ last.op \in {"record", "memcpy"}
                    /\ last.dir = d
                    /\ last.rc = "OUT_OF_RESOURCE"
                    /\ Len(polled[d]) >= 1

\* C5: a poll of a pool whose head event is not ready returns no descriptor
\* (0, or the error code when the query itself fails, with a NULL frag) and
\* leaves the pool as it is, whatever the state of the later events; a poll
\* queries no slot but the head slot; a poll of an empty pool returns 0 and
\* queries nothing.
C5_PollLooksAtHeadOnly ==
    [][\A d \in Dirs :
          PollCall(d) =>
              /\ last'.calls \subseteq {<<"cuEventQuery", cuda_event_first_used[d]>>}
              /\ (cuda_event_num_used[d] > 0
                     /\ cuda_event_array[d][cuda_event_first_used[d]] = "pending") =>
                     /\ last'.rc \in {"0", "ERROR"}
                     /\ last'.frag = NULL
                     /\ PoolUnchanged(d)
                     /\ last'.calls = {<<"cuEventQuery", cuda_event_first_used[d]>>}
              /\ cuda_event_num_used[d] = 0 =>
                     /\ last'.rc = "0"
                     /\ last'.calls = {}
                     /\ PoolUnchanged(d)]_vars

\* a poll came back empty-handed although the event behind the head is complete
C5_Witness ==
    \E d \in Dirs : /\ last.op = "progress_one"
                    /\ last.dir = d
                    /\ last.rc = "0"
                    /\ cuda_event_num_used[d] = 2
                    /\ cuda_event_array[d][cuda_event_first_used[d]] = "pending"
                    /\ cuda_event_array[d][Bump(cuda_event_first_used[d])] = "complete"

\* the step is a poll of pool d that hands back a descriptor
PollSuccess(d) == PollCall(d) /\ last'.rc = "1"

\* C6 as stated: a successful poll decrements num_used and advances both
\* cursors, first_avail and first_used, by one modulo the capacity.
C6_BothCursorsAdvance ==
    [][\A d \in Dirs :
          PollSuccess(d) =>
              /\ cuda_event_num_used'[d] = cuda_event_num_used[d] - 1
              /\ cuda_event_first_used'[d] = (cuda_event_first_used[d] + 1) % cuda_event_max
              /\ cuda_event_first_avail'[d] = (cuda_event_first_avail[d] + 1) % cuda_event_max]_vars

\* C6 amended: a successful poll hands back the descriptor of the head slot,
\* decrements num_used and advances first_used by one modulo the capacity;
\* first_avail stays as it is (it advances in the record calls).
C6_OnlyFirstUsedAdvances ==
    [][\A d \in Dirs :
          PollSuccess(d) =>
              /\ cuda_event_num_used'[d] = cuda_event_num_used[d] - 1
              /\ cuda_event_first_used'[d] = (cuda_event_first_used[d] + 1) % cuda_event_max
              /\ cuda_event_first_avail'[d] = cuda_event_first_avail[d]
              /\ last'.frag = cuda_event_frag_array[d][cuda_event_first_used[d]]]_vars

\* a successful poll that wrapped first_used around to 0
C6_Witness ==
    \E d \in Dirs : /\ last.op = "progress_one"
                    /\ last.dir = d
                    /\ last.rc = "1"
                    /\ cuda_event_first_used[d] = 0
                    /\ Len(polled[d]) = cuda_event_max

\* the step is the return of the synchronous copy from its query loop
WaitReturns(d) == pc = "memcpy_wait" /\ last'.op = "memcpy" /\ last'.dir = d

\* C7: a record or poll call on one pool leaves the count, the cursors, the
\* frag array and the events of the other pools as they are, and its result
\* depends on its own pool only: a record is refused exactly when its own
\* pool is full, and a poll of a non-empty pool whose head event is complete
\* is not held back.
C7_PoolsAreIndependent ==
    [][\A d \in Dirs :
          /\ (RecordCall(d) \/ PollCall(d) \/ WaitReturns(d)) =>
                 \A e \in Dirs \ {d} : PoolUnchanged(e)
          /\ RecordCall(d) =>
                 (last'.rc = "OUT_OF_RESOURCE" <=> cuda_event_num_used[d] = cuda_event_max)
          /\ (PollCall(d) /\ cuda_event_num_used[d] > 0
                 /\ cuda_event_array[d][cuda_event_first_used[d]] = "complete") =>
                 last'.rc \in {"1", "ERROR"}]_vars

\* a record succeeds on one pool while another pool is full behind a head
\* that is not ready
C7_Witness ==
    \E d, e \in Dirs : /\ d # e
                       /\ cuda_event_num_used[d] = cuda_event_max
                       /\ cuda_event_array[d][cuda_event_first_used[d]] = "pending"
                       /\ last.op \in {"record", "memcpy"}
                       /\ last.dir = e
                       /\ last.rc = "SUCCESS"


(***************************************************************************)
(* Properties of the deferred registration (checked under SpecReg).        *)
(***************************************************************************)
\* the step is a call of mca_common_cuda_register
RegisterCall == last'.op = "register"

\* the step is a call of mca_common_cuda_init
InitCall == last'.op = "init"

\* ... that gets past load_libcuda and finds a valid context
InitFoundContext ==
    /\ InitCall
    /\ ompi_mpi_cuda_support
    /\ ~common_cuda_initialized
    /\ <<"cuCtxGetCurrent", 0>> \in last'.calls
    /\ mca_common_cuda_enabled'

\* ... and completes the set-up of the event pools, so that it gets to the
\* loop over the delayed registrations
InitReachedDrain == InitFoundContext /\ <<"cuStreamCreate", 0>> \in last'.calls

\* the regions passed to cuMemHostRegister in this step
AddedCalls == SubSeq(hostRegisterCalls', Len(hostRegisterCalls) + 1, Len(hostRegisterCalls'))

\* how often region r occurs in sequence q
Count(q, r) == Cardinality({i \in 1 .. Len(q) : q[i] = r})

\* C8 as stated: a request made before initialization makes no driver call
\* and is queued; an init that finds a valid context attempts the driver
\* registration of every queued request once, in queue order; the queue is
\* empty when init returns success; a request made after a successful init
\* is applied at once and not queued.
C8_DrainOnValidContext ==
    [][/\ (RegisterCall /\ ~common_cuda_initialized) =>
              /\ last'.calls = {}
              /\ hostRegisterCalls' = hostRegisterCalls
              /\ \E r \in Regions : common_cuda_memory_registrations' =
                                        Append(common_cuda_memory_registrations, r)
       /\ InitFoundContext =>
              AddedCalls = common_cuda_memory_registrations
       /\ (InitCall /\ last'.rc = "SUCCESS") => common_cuda_memory_registrations' = <<>>
       /\ (RegisterCall /\ common_cuda_initialized /\ mca_common_cuda_enabled) =>
              /\ Len(AddedCalls) = 1
              /\ common_cuda_memory_registrations' = common_cuda_memory_registrations]_vars

\* C8 amended: the drain needs more than a valid context: the set-up of the
\* event pools must succeed, and the requests are passed to the driver only
\* while mca_common_cuda_register_memory is on; otherwise init applies
\* nothing (and, past the set-up, releases the queue without a driver call).
C8_DeferredRegistration ==
    [][/\ (RegisterCall /\ ~common_cuda_initialized) =>
              /\ last'.calls = {}
              /\ hostRegisterCalls' = hostRegisterCalls
              /\ pinned' = pinned
              /\ \E r \in Regions : common_cuda_memory_registrations' =
                                        Append(common_cuda_memory_registrations, r)
       /\ InitReachedDrain =>
              /\ common_cuda_memory_registrations' = <<>>
              /\ AddedCalls = IF mca_common_cuda_register_memory'
                              THEN common_cuda_memory_registrations ELSE <<>>
       /\ (InitCall /\ ~InitReachedDrain) =>
              /\ common_cuda_memory_registrations' = common_cuda_memory_registrations
              /\ hostRegisterCalls' = hostRegisterCalls
       /\ (InitCall /\ last'.rc = "SUCCESS") => common_cuda_memory_registrations' = <<>>
       /\ (RegisterCall /\ common_cuda_initialized) =>
              /\ common_cuda_memory_registrations' = common_cuda_memory_registrations
              /\ Len(AddedCalls) = IF mca_common_cuda_enabled /\ mca_common_cuda_register_memory
                                   THEN 1 ELSE 0
              /\ last'.calls = {<<"cuMemHostRegister", AddedCalls[i].ptr>> :
                                   i \in 1 .. Len(AddedCalls)}]_vars

\* init returned success after the drain went on past a registration that
\* the driver refused
C8_Witness ==
    /\ last.op = "init"
    /\ last.rc = "SUCCESS"
    /\ common_cuda_memory_registrations = <<>>
    /\ Len(hostRegisterCalls) >= 2
    /\ hostRegisterCalls[1].ptr \notin pinned
    /\ hostRegisterCalls[2].ptr \in pinned

InitFoundNoContext ==
    /\ last.op = "init"
    /\ last.rc = "ERROR"
    /\ last.calls = {<<"cuCtxGetCurrent", 0>>}

\* C10: once init found no valid context the layer is disabled for good: a
\* registration request that follows changes no state and makes no driver
\* call (nothing more is queued), and an init call that follows does not
\* enable the layer or apply registrations.
C10_NoContextDisablesForGood ==
    [][InitFoundNoContext =>
           /\ RegisterCall =>
                  /\ last'.calls = {}
                  /\ common_cuda_memory_registrations' = common_cuda_memory_registrations
                  /\ hostRegisterCalls' = hostRegisterCalls
           /\ InitCall =>
                  /\ ~mca_common_cuda_enabled'
                  /\ hostRegisterCalls' = hostRegisterCalls]_vars

\* the step is a call of mca_common_cuda_unregister
UnregisterCall == last'.op = "unregister"

\* the library could not be loaded by an earlier init call: only that branch
\* of init switches ompi_mpi_cuda_support off
LoadFailed == common_cuda_initialized /\ ~ompi_mpi_cuda_support

\* C11: when the driver library cannot be loaded, init returns an error
\* (the process goes on) and the layer is a no-op for good: it stays marked
\* initialized with support switched off, every later init call returns an
\* error without a driver call, and every later register or unregister call
\* makes no driver call.
C11_LoadFailureIsPermanentNoOp ==
    [][/\ (InitCall /\ ~LoadFailed /\ LoadFailed') =>
              /\ last'.rc = "ERROR"
              /\ last'.calls = {}
              /\ pc' = "idle"
       /\ LoadFailed =>
              /\ LoadFailed'
              /\ InitCall => (last'.rc = "ERROR" /\ last'.calls = {})
              /\ (RegisterCall \/ UnregisterCall) =>
                     /\ last'.calls = {}
                     /\ hostRegisterCalls' = hostRegisterCalls
                     /\ pinned' = pinned]_vars

\* the part of C11 about init itself: the error return, the marking, and the
\* later init calls that return an error without touching the driver
C11_LaterInitCallsFail ==
    [][/\ (InitCall /\ ~LoadFailed /\ LoadFailed') =>
              /\ last'.rc = "ERROR"
              /\ last'.calls = {}
              /\ pc' = "idle"
       /\ LoadFailed =>
              /\ LoadFailed'
              /\ InitCall => (last'.rc = "ERROR" /\ last'.calls = {})]_vars

\* C12: an unregister call made while the layer is not initialized empties
\* the queue of delayed registrations whichever pointer it names and makes
\* no driver call; an init call passes to the driver only regions that are
\* in the queue when it runs, so a released region is not registered by it.
C12_UnregisterBeforeInitReleasesQueue ==
    [][/\ (UnregisterCall /\ ~common_cuda_initialized) =>
              /\ common_cuda_memory_registrations' = <<>>
              /\ last'.calls = {}
              /\ hostRegisterCalls' = hostRegisterCalls
              /\ pinned' = pinned
       /\ InitCall =>
              \A r \in Regions :
                  Count(AddedCalls, r) <= Count(common_cuda_memory_registrations, r)]_vars

\* three requests were made before the first successful init, which passed
\* one of them to the driver although registration is switched on: the
\* other two were released by an unregister call
C12_Witness ==
    /\ last.op = "init"
    /\ last.rc = "SUCCESS"
    /\ <<"cuStreamCreate", 0>> \in last.calls
    /\ mca_common_cuda_register_memory
    /\ num_requests = 3
    /\ Len(hostRegisterCalls) = 1


(***************************************************************************)
(* Properties of the exchange of IPC handles (checked under SpecExport,    *)
(* SpecImport and SpecRoundTrip).                                          *)
(***************************************************************************)
\* the step is a call of cuda_openmemhandle
OpenCall == last'.op = "openmemhandle"

\* the result the driver gave to driver call f in the step
DriverResult(f) == CHOOSE res \in CUresults \cup {"CUDA_ERROR_INVALID_VALUE"} :
                       <<f, res>> \in ipc_call'.results

\* the allocation named by the handle of the peer's registration p is mapped
\* by the peer
AlreadyMapped(p) == HandleAllocation(rget_reg[p].memHandle).base \in peer_mapped

\* C13: cuda_openmemhandle of a handle whose allocation the peer has mapped
\* already returns the would-block code, which no other outcome returns:
\* every other failure of the driver returns the error code, success returns
\* the success code and stores a local address.  Once the stale mapping is
\* closed, a retry of a refused import that the driver does not fail
\* returns success with a local address.
C13_AlreadyMappedIsRecoverable ==
    [][OpenCall =>
           LET p == ipc_call'.reg
               result == DriverResult("cuIpcOpenMemHandle")
           IN  /\ (last'.rc = "WOULD_BLOCK") <=> (result = "CUDA_ERROR_ALREADY_MAPPED")
               /\ (last'.rc = "ERROR") <=>
                      (result \notin {"CUDA_SUCCESS", "CUDA_ERROR_ALREADY_MAPPED"})
               /\ (last'.rc = "SUCCESS") <=> (result = "CUDA_SUCCESS")
               /\ AlreadyMapped(p) => last'.rc \in {"WOULD_BLOCK", "ERROR"}
               /\ last'.rc = "SUCCESS" =>
                      /\ rget_reg'[p].alloc_base # NULL
                      /\ rget_reg'[p].alloc_base =
                             PeerAddress(HandleAllocation(rget_reg[p].memHandle))
               /\ last'.rc # "SUCCESS" => rget_reg'[p].alloc_base = NULL
               /\ (rget_reg[p].blocked /\ ~AlreadyMapped(p)
                   /\ result \notin {"CUDA_ERROR_INVALID_HANDLE", "CUDA_ERROR_OUT_OF_MEMORY"}) =>
                      /\ last'.rc = "SUCCESS"
                      /\ rget_reg'[p].alloc_base # NULL]_vars

\* an import that was refused as already mapped has succeeded on a retry:
\* the mapping that stood in its way was closed in between
C13_Witness ==
    /\ last.op = "openmemhandle"
    /\ last.rc = "SUCCESS"
    /\ \E p \in RegIds :
           /\ ipc_call.reg = p
           /\ rget_reg[p].blocked
           /\ rget_reg[p].alloc_base # NULL
           /\ peer_mapped = {HandleAllocation(rget_reg[p].memHandle).base}

\* the step is a call of cuda_getmemhandle
GetMemHandleCall == last'.op = "getmemhandle"

\* driver call f was made in the step and failed
DriverCallFailed(f) == \E c \in ipc_call'.results : c[1] = f /\ c[2] # "CUDA_SUCCESS"

\* what a successful export of pointer ptr leaves in registration r: base and
\* bound of the allocation ptr lies in, its memory handle, and the event of
\* the registration recorded behind the writes issued so far
ExportStored(ptr, r) ==
    \E a \in Allocations :
        /\ a.base <= ptr /\ ptr <= a.base + a.size - 1
        /\ cuda_reg'[r].base = a.base
        /\ cuda_reg'[r].bound = a.base + a.size - 1
        /\ cuda_reg'[r].base <= ptr /\ ptr <= cuda_reg'[r].bound
        /\ cuda_reg'[r].memHandle # NULL
        /\ HandleAllocation(cuda_reg'[r].memHandle) = a
        /\ <<"cuEventRecord", cuda_reg[r].event>> \in last'.calls
        /\ cu_event'[cuda_reg[r].event] = issued
        /\ export_mark'[r] = issued

WaitCall == last'.op = "wait_stream_synchronize"

\* the step is a copy of the peer out of the owner's memory
PeerCopyCall == last'.op = "peer_copy"

\* the peer has imported the handle of its registration p and has called
\* the wait for it
ImportedAndWaited(p) == rget_reg[p].alloc_base # NULL /\ rget_reg[p].waited >= 0

\* C15: once the owner has exported a region and the peer has imported the
\* handle and called mca_common_wait_stream_synchronize for it, a copy of the
\* peer finds every write completed that the owner issued before the
\* export; and the event the peer's stream is made to wait for is the event
\* the owner recorded at the export.
C15_WritesBeforeExportAreVisible ==
    [][/\ WaitCall =>
              LET p == ipc_call'.reg
              IN  <<"cuStreamWaitEvent", cuda_reg[rget_reg[p].from].event>> \in last'.calls
       /\ PeerCopyCall =>
              \A p \in RegIds : ImportedAndWaited(p) => rget_reg[p].waited <= completed]_vars

\* the part of C15 that the code provides: when the three driver calls of
\* the wait succeed, the stream waits for the owner's event, and a copy put
\* on the stream afterwards starts behind the writes captured at the export
C15_SuccessfulWaitOrdersCopy ==
    [][/\ (WaitCall /\ \A c \in ipc_call'.results : c[2] = "CUDA_SUCCESS") =>
              LET p == ipc_call'.reg
              IN  /\ <<"cuStreamWaitEvent", cuda_reg[rget_reg[p].from].event>> \in last'.calls
                  /\ peer_barrier' >= export_mark[rget_reg[p].from]
       /\ PeerCopyCall => completed >= peer_barrier]_vars


(***************************************************************************)
(* Properties of the uGNI progress function (checked under SpecRdma and    *)
(* SpecProgress).                                                          *)
(***************************************************************************)
\* the step is a call of mca_btl_ugni_progress_rdma
RdmaCall == last'.op = "progress_rdma"

\* the step is a call of mca_btl_ugni_progress_rdma that found the transfer
\* of a fragment failed with a recoverable error
RecoverableFailure == RdmaCall /\ ugni_call'.event = "RECOVERABLE"

\* C16: a fragment whose completion reports a recoverable error is posted
\* again after each of its first rdma_max_retries failures and its callback
\* is called with a failure status at failure rdma_max_retries + 1, not
\* before; no failure leaves it without a repost and without a callback.
C16_FailureAfterMaxRetriesReposts ==
    [][RecoverableFailure =>
           LET f == ugni_call'.item
               n == frags'[f].tries
           IN  /\ n <= rdma_max_retries =>
                      (ugni_call'.reposted /\ ugni_call'.cb = "none")
               /\ n = rdma_max_retries + 1 =>
                      (ugni_call'.cb = "ERROR" /\ ~ugni_call'.reposted)
               /\ n <= rdma_max_retries + 1
               /\ ugni_call'.reposted \/ ugni_call'.cb # "none"]_vars

\* what the code does in place of C16: the fragment is posted again after
\* each of its first rdma_max_retries - 1 failures and its callback is
\* called with a failure status at failure rdma_max_retries
C16_FailureAtMaxRetries ==
    [][RecoverableFailure =>
           LET f == ugni_call'.item
               n == frags'[f].tries
           IN  /\ n = frags[f].tries + 1
               /\ n < rdma_max_retries =>
                      (ugni_call'.reposted /\ ugni_call'.cb = "none")
               /\ n = rdma_max_retries =>
                      (ugni_call'.cb = "ERROR" /\ ~ugni_call'.reposted)
               /\ n <= rdma_max_retries]_vars

\* the fragment is in no completion queue and on no list of failed fragments
NowhereQueued(f) ==
    \A b \in Btls : f \notin Range(rdma_local_cq[b]) /\ f \notin Range(failed_frags[b])

\* C17: the completion callback of a fragment is called with a terminal
\* status at most once, whatever the sequence of progress calls: once it
\* was called, with failure or with success, the fragment is not posted,
\* not queued and not on failed_frags, and no later step posts it again or
\* calls its callback again.
C17_CallbackAtMostOnce ==
    [][\A f \in Frags :
           /\ Len(callbacks'[f]) <= 1
           /\ callbacks[f] # <<>> =>
                  /\ frags[f].state = "done"
                  /\ NowhereQueued(f)
                  /\ frags'[f] = frags[f]
                  /\ callbacks'[f] = callbacks[f]]_vars

\* one fragment was given up after rdma_max_retries failures, the other
\* completed with success after a repost, and the progress function has
\* polled the queue of RDMA completions again since
C17_Witness ==
    /\ \E f \in Frags, g \in Frags :
           /\ callbacks[f] = <<"ERROR">>
           /\ frags[f].tries = rdma_max_retries
           /\ callbacks[g] = <<"SUCCESS">>
           /\ frags[g].tries > 0
    /\ last.op = "progress_rdma"
    /\ ugni_call.event = "NOT_DONE"

\* C18 (the part that finite behaviours decide): no call of
\* mca_btl_ugni_progress_rdma takes a completion event off the queue without
\* posting the fragment again or calling its callback.
C18_EveryEventIsRepostedOrCalledBack ==
    [][(RdmaCall /\ ugni_call'.consumed) =>
           (ugni_call'.reposted \/ ugni_call'.cb # "none")]_vars

\* the calls of one invocation of the progress function, in the order of
\* the source: for each module in turn, the stages in their order
ProgramOrder ==
    [n \in 1 .. (NumBtls * Len(Stages)) |->
        <<((n - 1) \div Len(Stages)) + 1, Stages[((n - 1) % Len(Stages)) + 1]>>]

\* the step is the return of mca_btl_ugni_component_progress
ProgressReturns == last'.op = "component_progress_return"

\* C19: an invocation of the progress function makes its calls in the order
\* of ProgramOrder, each after the one before it has returned: for every
\* module in turn the failed fragments, the wait list, the datagrams, the
\* local and the remote mailbox completions and the RDMA completions; when
\* it returns it has made all of them.
C19_StagesInFixedOrder ==
    [][/\ prog'.running => IsPrefix(prog'.visited, ProgramOrder)
       /\ ProgressReturns => prog.visited = ProgramOrder]_vars

\* an invocation has gone through every stage of every module, advancing
\* work in more than one of them, and is about to return
C19_Witness ==
    /\ prog.running
    /\ prog.i \notin Btls
    /\ prog.visited = ProgramOrder
    /\ prog.advanced >= 3
    /\ prog.count >= 2

\* C20: the value the progress function returns is the number of work
\* items the invocation advanced (failed fragments flushed, endpoints of
\* the wait list attempted, datagrams, mailbox messages, RDMA completions);
\* it is not negative, and it is zero exactly when nothing was advanced.
C20_ReturnsWorkItemsAdvanced ==
    [][ProgressReturns =>
           /\ ugni_call'.rc = prog.advanced
           /\ ugni_call'.rc >= 0
           /\ (ugni_call'.rc = 0) <=> (prog.advanced = 0)]_vars

\* the state of the modules: lists, queues, fragments, endpoints
module_vars == <<rdma_vars, wait_vars, conn_vars, smsg_vars>>

\* nothing waits for the progress function: no failed fragment, no endpoint
\* on a wait list, no completed datagram, no event in a completion queue
Quiescent ==
    \A b \in Btls :
        /\ failed_frags[b] = <<>>
        /\ ep_wait_list[b] = <<>>
        /\ datagram[b] = NoDatagram
        /\ smsg_local_cq[b] = 0
        /\ smsg_remote_cq[b] = 0
        /\ rdma_local_cq[b] = <<>>

\* the step is one of the calls in the loop of the progress function
StageCall == prog.running /\ prog.i \in Btls /\ last'.op = Stages[prog.stage]

\* the step is the entry of mca_btl_ugni_component_progress
ProgressEnters == last'.op = "component_progress"

\* C21: an invocation of the progress function that finds nothing waiting
\* (the queue of RDMA completions reporting that no event is there) returns
\* 0 and leaves the state of the modules as it was: count is 0 at the
\* entry, every call of the loop made with nothing waiting changes neither
\* the state of the modules nor count, and the return hands back count
\* without touching the state.  A second invocation starts from the same
\* state and gives the same result.
C21_QuiescentProgressIsNoOp ==
    [][/\ ProgressEnters => (prog'.count = 0 /\ UNCHANGED module_vars)
       /\ (StageCall /\ Quiescent /\ ugni_call'.event \in {"none", "NOT_DONE"}) =>
              /\ UNCHANGED module_vars
              /\ prog'.count = prog.count
              /\ ugni_call'.rc = 0
              /\ pc' = pc
       /\ ProgressReturns =>
              /\ ugni_call'.rc = prog.count
              /\ UNCHANGED module_vars]_vars

\* an invocation has returned 0 with nothing waiting, in a state that
\* earlier work has left: a fragment given up after a repost, an endpoint
\* connected
C21_Witness ==
    /\ last.op = "component_progress_return"
    /\ ugni_call.rc = 0
    /\ ugni_call.item = 0
    /\ Quiescent
    /\ frags[1].state = "done"
    /\ frags[1].tries = rdma_max_retries
    /\ ep_state[1][1] = "CONNECTED"

\* C22: no call waits for an external event: the calling thread is never
\* inside a call that can only return once a copy event has completed.  The
\* synchronous branch of mca_common_cuda_memcpy stays in its cuEventQuery
\* loop while the event it recorded is not ready.
C22_NoCallWaitsForAnEvent ==
    ~(/\ pc = "memcpy_wait"
      /\ cuda_event_array["ipc"][cuda_event_first_used["ipc"]] = "pending")

(***************************************************************************)
(* Properties of the wait lists (checked under SpecWaitList).              *)
(***************************************************************************)
\* the number of positions of list that hold e
Occurrences(list, e) == Cardinality({k \in 1..Len(list) : list[k] = e})

\* C23: in every reachable state each endpoint is at most once on the wait
\* list of its module (and is there exactly when its wait_listed flag is set)
C23_AtMostOnceOnWaitList ==
    \A b \in Btls, e \in Eps :
        /\ Occurrences(ep_wait_list[b], e) <= 1
        /\ wait_listed[b][e] <=> (e \in Range(ep_wait_list[b]))

\* the wait list stage has just run on a list of two endpoints and both are
\* on the list again
C23_Witness ==
    /\ last.op = "progress_wait_list"
    /\ ugni_call.rc = NumEps
    /\ Len(ep_wait_list[ugni_call.btl]) = NumEps
    /\ Occurrences(ep_wait_list[ugni_call.btl], 1) = 1

\* the step is the wait list stage of module b
WaitListCall(b) == InStage("progress_wait_list") /\ prog.i = b /\ last'.op = "progress_wait_list"

\* C24: the wait list stage of one invocation attempts the endpoints that
\* are on the list at its entry, each once and in the order of the list (an
\* endpoint appended again during the stage is not attempted a second
\* time), and every endpoint whose send did not succeed is on the list when
\* the stage returns
C24_EachWaitListedEndpointAttemptedOnce ==
    [][\A b \in Btls : WaitListCall(b) =>
          LET attempts == ugni_call'.item
          IN  /\ Len(attempts) = Len(ep_wait_list[b])
              /\ \A k \in 1..Len(attempts) : attempts[k][1] = ep_wait_list[b][k]
              /\ \A k \in 1..Len(attempts) :
                     attempts[k][2] # OMPI_SUCCESS =>
                         /\ attempts[k][1] \in Range(ep_wait_list'[b])
                         /\ wait_listed'[b][attempts[k][1]]]_vars

\* the stage has attempted two endpoints in the order 2, 1: the first sent,
\* the second failed and is alone on the list
C24_Witness ==
    /\ last.op = "progress_wait_list"
    /\ ugni_call.item = <<<<2, OMPI_SUCCESS>>, <<1, OMPI_ERROR>>>>
    /\ ep_wait_list[ugni_call.btl] = <<1>>

(***************************************************************************)
(* Properties of the connection datagrams.                                 *)
(***************************************************************************)
\* the step is the datagram stage of module b, finding a completed datagram
DatagramCall(b) ==
    /\ InStage("progress_datagram")
    /\ prog.i = b
    /\ last'.op = "progress_datagram"
    /\ datagram[b] # NoDatagram

\* the wildcard datagram of module b is posted: it listens, or it has
\* completed and waits to be collected
WildcardOutstanding(b) == wildcard_posted[b] \/ datagram[b].id = "wildcard"

\* C25: a datagram stage that finds a completed wildcard datagram leaves the
\* wildcard datagram posted again, whatever the results of the wait on the
\* datagram and of the connection step are, so that the wildcard datagram of
\* every module is outstanding whenever an invocation of the progress
\* function starts.  The path of lines 399-403 returns before line 421.
C25_WildcardAlwaysReposted ==
    [][/\ \A b \in Btls :
              (DatagramCall(b) /\ datagram[b].id = "wildcard") => WildcardOutstanding(b)'
       /\ ProgressEnters => \A b \in Btls : WildcardOutstanding(b)]_vars

\* C26: a datagram stage that collects its datagram processes the mailbox of
\* the endpoint exactly if the endpoint is CONNECTED after the connection
\* step: then all waiting messages are processed before the stage returns
\* and their number is what the stage adds to count; otherwise the mailbox
\* is left as it is and the stage adds 0
C26_MailboxProcessedOnConnect ==
    [][\A b \in Btls :
          (DatagramCall(b) /\ ugni_call'.event \in ConnectResults) =>
              LET ep == datagram[b].ep
              IN  IF ep_state'[b][ep] = "CONNECTED"
                  THEN /\ mailbox'[b][ep] = 0
                       /\ ugni_call'.rc = mailbox[b][ep]
                       /\ prog'.count = prog.count + mailbox[b][ep]
                  ELSE /\ mailbox'[b][ep] = mailbox[b][ep]
                       /\ ugni_call'.rc = 0
                       /\ prog'.count = prog.count]_vars

\* a directed datagram has connected an endpoint and the stage has processed
\* the two messages of its mailbox, while the other endpoint of the module
\* is not connected and keeps its messages
C26_Witness ==
    /\ last.op = "progress_datagram"
    /\ ugni_call.event = "SUCCESS"
    /\ ugni_call.rc = MaxMsgs
    /\ ugni_call.item = 1
    /\ ~ugni_call.reposted
    /\ ep_state[ugni_call.btl][1] = "CONNECTED"
    /\ mailbox[ugni_call.btl][1] = 0
    /\ ep_state[ugni_call.btl][2] = "CONNECTING"
    /\ mailbox[ugni_call.btl][2] > 0

\* the steps of the connection state that the state machine allows: forward
\* along UNCONNECTED, CONNECTING, CONNECTED, or from CONNECTING into FAILED
ForwardMoves ==
    {<<"UNCONNECTED", "CONNECTING">>, <<"UNCONNECTED", "CONNECTED">>,
     <<"CONNECTING", "CONNECTED">>, <<"CONNECTING", "FAILED">>}

\* the handshake of endpoint e of module b has failed: its datagram could
\* not be collected while it was connecting, or its connection step failed
HandshakeFailed(b, e) == e \in wait_failed[b] \/ ep_state[b][e] = "FAILED"

\* C27: the connection state of an endpoint only moves forward, and an
\* endpoint whose handshake has failed stays unusable: no later step makes
\* it CONNECTED or processes its mailbox.  After a failed wait on its
\* datagram (lines 399-403) the endpoint is still CONNECTING and the next
\* datagram that names it connects it.
C27_FailedEndpointStaysUnusable ==
    [][\A b \in Btls, e \in Eps :
          /\ ep_state'[b][e] # ep_state[b][e] =>
                 <<ep_state[b][e], ep_state'[b][e]>> \in ForwardMoves
          /\ HandshakeFailed(b, e) =>
                 /\ ep_state'[b][e] # "CONNECTED"
                 /\ mailbox'[b][e] >= mailbox[b][e]]_vars

(***************************************************************************)
(* Properties of the component functions (checked under SpecInit).         *)
(***************************************************************************)
\* mca_btl_ugni_component_init has returned
InitReturned == init_call.op = "component_init"

\* C28: when the configured mailbox limit is 0, mca_btl_ugni_smsg_setup
\* chooses the limit from the number of ranks n, the upper boundary of each
\* band included: 8192 up to 512 ranks, 2048 up to 1024, 1024 up to 8192,
\* 512 up to 16384 and 256 above; 600 ranks give 2048
C28_AutoselectBands ==
    (InitReturned /\ init_call.setup /\ init_call.smsg_limit = 0) =>
        LET n == init_call.nprocs
            limit == component.ugni_smsg_limit
        IN  /\ n <= 512 => limit = 8192
            /\ (512 < n /\ n <= 1024) => limit = 2048
            /\ (1024 < n /\ n <= 8192) => limit = 1024
            /\ (8192 < n /\ n <= 16384) => limit = 512
            /\ n > 16384 => limit = 256
            /\ n = 600 => limit = 2048

\* the setup has chosen the limit for a job of exactly 512 ranks
C28_Witness ==
    /\ InitReturned
    /\ init_call.setup
    /\ init_call.smsg_limit = 0
    /\ init_call.nprocs = 512
    /\ component.ugni_smsg_limit = 8192
    /\ init_call.rc = "base_modules"

\* the smaller of two numbers
Min(a, b) == IF a < b THEN a ELSE b

\* C29: after mca_btl_ugni_component_init, whatever was configured, the
\* mailbox limit is at most 16384 and the FMA limit at most 65536; a
\* configured mailbox limit v other than 0 ends as min(v, 16384) and not as
\* a limit chosen from the job size, a configured FMA limit w as min(w, 65536)
C29_LimitsCapped ==
    InitReturned =>
        /\ component.ugni_smsg_limit <= 16384
        /\ component.ugni_fma_limit <= 65536
        /\ init_call.smsg_limit # 0 =>
               component.ugni_smsg_limit = Min(init_call.smsg_limit, 16384)
        /\ component.ugni_fma_limit = Min(init_call.fma_limit, 65536)

\* an init with both limits configured above their caps has succeeded
C29_Witness ==
    /\ InitReturned
    /\ init_call.rc = "base_modules"
    /\ init_call.smsg_limit = 65536
    /\ component.ugni_smsg_limit = 16384
    /\ init_call.fma_limit = 65537
    /\ component.ugni_fma_limit = 65536

\* C30: mca_btl_ugni_component_init returns either the array with one
\* initialized module for each device found, *num_btl_modules being the
\* device count, or NULL with *num_btl_modules not written; it returns NULL
\* whenever ompi_common_ugni_init, an allocation, the mailbox setup or the
\* initialization of a module fails, and the process is not aborted
C30_InitReturnsAllModulesOrNull ==
    InitReturned =>
        /\ pc = "idle"
        /\ init_call.faults # {} => init_call.rc = "NULL"
        /\ \/ /\ init_call.rc = "NULL"
              /\ init_call.num_btl_modules = Unset
           \/ /\ init_call.rc = "base_modules"
              /\ init_call.num_btl_modules = init_call.devices
              /\ Len(init_call.base_modules) = init_call.devices
              /\ \A i \in 1..init_call.devices :
                     /\ init_call.base_modules[i] = i
                     /\ i \in component.initialized
              /\ component.modules = "modules"
              /\ component.ugni_num_btls = init_call.devices

\* an init has failed at its last module after initializing the first, and
\* has returned NULL without a count
C30_Witness ==
    /\ InitReturned
    /\ init_call.faults = {"mca_btl_ugni_module_init"}
    /\ init_call.devices = NumBtls
    /\ component.initialized = 1..(NumBtls - 1)
    /\ init_call.rc = "NULL"
    /\ init_call.num_btl_modules = Unset

(***************************************************************************)
(* Properties of the list of failed fragments (checked under SpecRdma).    *)
(***************************************************************************)
\* the step is the flush of failed_frags of module b
RetryCall(b) == InStage("retry_failed") /\ prog.i = b /\ last'.op = "retry_failed"

\* C31: the flush of failed_frags calls the callback of every fragment that
\* is on the list at its entry, once, in the order of the list and with
\* OMPI_SUCCESS, and takes it off the list; a fragment that its callback has
\* put on the list again is at the end of the list and is not called a
\* second time, so the stage makes as many calls as the list was long
C31_FlushCallsEachFailedFragOnce ==
    [][\A b \in Btls : RetryCall(b) =>
          LET called == ugni_call'.item
              list == failed_frags[b]
          IN  /\ Len(called) = Len(list)
              /\ \A k \in 1..Len(called) : called[k] = <<list[k], OMPI_SUCCESS>>
              /\ \A f \in Range(list) :
                     \/ f \notin Range(failed_frags'[b])
                     \/ frags'[f].state = "failed" /\ frags'[f].tries = frags[f].tries
              /\ Range(failed_frags'[b]) \subseteq Range(list)
              /\ ugni_call'.rc = Len(list)]_vars

\* the flush has called the callbacks of two fragments: the first was
\* posted again, the second could not be and is on the list again
C31_Witness ==
    /\ last.op = "retry_failed"
    /\ Len(ugni_call.item) = 2
    /\ frags[ugni_call.item[1][1]].state = "posted"
    /\ failed_frags[ugni_call.btl] = <<ugni_call.item[2][1]>>

(***************************************************************************)
(* More properties of the event pools (checked under SpecPool).            *)
(***************************************************************************)
\* the slots of pool d that are in use: num_used slots from first_used on
InUseSlots(d) ==
    {(cuda_event_first_used[d] + k) % cuda_event_max : k \in 0..(cuda_event_num_used[d] - 1)}

\* a slot in use of pool d holds descriptor frag
BoundInUse(d, frag) == \E i \in InUseSlots(d) : cuda_event_frag_array[d][i] = frag

\* the distance from first_used to first_avail in pool d
CursorGap(d) == (cuda_event_first_avail[d] - cuda_event_first_used[d]) % cuda_event_max

\* C32: a successful mca_common_cuda_memcpy reports done = 0 in asynchronous
\* mode and leaves one more slot of the IPC pool in use, holding the
\* fragment; in synchronous mode it reports done = 1 and leaves the count
\* and the distance of the cursors as they were when it was called, with no
\* slot in use holding the fragment.  (A synchronous copy that returns from
\* its query loop has added its slot in an earlier step.)  A synchronous
\* copy made after one whose query failed releases the older slot, not its own.
C32_MemcpyLeavesPoolAsDocumented ==
    [][/\ (RecordCall("ipc") /\ last'.rc = "SUCCESS" /\ mca_common_cuda_async # 0) =>
              /\ last'.done = 0
              /\ cuda_event_num_used'["ipc"] = cuda_event_num_used["ipc"] + 1
              /\ cuda_event_first_avail["ipc"] \in InUseSlots("ipc")'
              /\ cuda_event_frag_array'["ipc"][cuda_event_first_avail["ipc"]] = NextFrag("ipc")
       /\ (RecordCall("ipc") /\ last'.rc = "SUCCESS" /\ mca_common_cuda_async = 0) =>
              /\ last'.done = 1
              /\ cuda_event_num_used'["ipc"] = cuda_event_num_used["ipc"]
              /\ CursorGap("ipc")' = CursorGap("ipc")
              /\ ~BoundInUse("ipc", NextFrag("ipc"))'
       /\ (WaitReturns("ipc") /\ last'.rc = "SUCCESS") =>
              /\ last'.done = 1
              /\ cuda_event_num_used'["ipc"] = cuda_event_num_used["ipc"] - 1
              /\ CursorGap("ipc")' = (CursorGap("ipc") - 1) % cuda_event_max
              /\ ~BoundInUse("ipc", recorded["ipc"][Len(recorded["ipc"])])']_vars

(***************************************************************************)
(* Properties of MPI_T_pvar_reset (checked under SpecPvar).                *)
(***************************************************************************)
PvarResetCall == pvar_call'.op = "MPI_T_pvar_reset"

\* the handles of the session whose variable can be written
WritableHandles == {h \in Range(mpit.session) : ~mpit.pvar[h].readonly}

\* before the interface is initialized the call returns the error, takes no
\* lock and leaves every handle as it is; on every other path the lock that
\* is taken is released; with all handles, each writable handle is reset
\* once and no read-only handle is reset
PvarResetLocksAndSkips ==
    [][PvarResetCall =>
          IF ~mpit.initialized
          THEN /\ pvar_call'.rc = "MPI_T_ERR_NOT_INITIALIZED"
               /\ pvar_call'.locked = 0
               /\ mpit' = mpit
          ELSE /\ pvar_call'.locked = 1
               /\ pvar_call'.unlocked = 1
               /\ mpit'.lock = 0
               /\ pvar_call'.handle = MPI_T_PVAR_ALL_HANDLES =>
                      /\ {a[1] : a \in Range(pvar_call'.attempted)} = WritableHandles
                      /\ Len(pvar_call'.attempted) = Cardinality(WritableHandles)
                      /\ \A h \in Handles \ WritableHandles :
                             mpit'.pvar[h] = mpit.pvar[h]
                      /\ \A a \in Range(pvar_call'.attempted) :
                             a[2] = "SUCCESS" => mpit'.pvar[a[1]].value = 0]_vars

\* C33: MPI_T_pvar_reset with MPI_T_PVAR_ALL_HANDLES resets every handle whose
\* variable is not read-only and no read-only one, returns MPI_SUCCESS when
\* every reset it attempted succeeded and MPI_T_ERR_PVAR_NO_WRITE when one
\* failed; before the interface is initialized it returns
\* MPI_T_ERR_NOT_INITIALIZED without the lock and without a change to a
\* handle; on every other path the lock is released before it returns.
C33_ResetAllReturnsSuccessOrNoWrite ==
    [][PvarResetCall =>
          IF ~mpit.initialized
          THEN /\ pvar_call'.rc = "MPI_T_ERR_NOT_INITIALIZED"
               /\ pvar_call'.locked = 0
               /\ mpit' = mpit
          ELSE /\ pvar_call'.locked = pvar_call'.unlocked
               /\ mpit'.lock = 0
               /\ pvar_call'.handle = MPI_T_PVAR_ALL_HANDLES =>
                      /\ {a[1] : a \in Range(pvar_call'.attempted)} = WritableHandles
                      /\ \A h \in Handles \ WritableHandles :
                             mpit'.pvar[h] = mpit.pvar[h]
                      /\ (\A a \in Range(pvar_call'.attempted) : a[2] = "SUCCESS")
                             => pvar_call'.rc = "MPI_SUCCESS"
                      /\ (\E a \in Range(pvar_call'.attempted) : a[2] # "SUCCESS")
                             => pvar_call'.rc = "MPI_T_ERR_PVAR_NO_WRITE"]_vars

(***************************************************************************)
(* A poll whose query fails (checked under SpecPool).                      *)
(***************************************************************************)
\* the last step was a poll of pool d whose query returned a hard error
PollFailed(d) == last.op = "progress_one" /\ last.dir = d /\ last.rc = "ERROR"

\* C34: a poll whose cuEventQuery on the head slot returns an error other
\* than NOT_READY returns an error and no descriptor and leaves num_used and
\* both cursors as they were; the poll that follows queries the same slot,
\* and a descriptor it hands back is the one of that slot.
C34_FailedPollKeepsHead ==
    [][\A d \in Dirs :
          /\ (PollCall(d) /\ last'.rc = "ERROR") =>
                 /\ last'.frag = NULL
                 /\ last'.calls = {<<"cuEventQuery", cuda_event_first_used[d]>>}
                 /\ PoolUnchanged(d)
          /\ (PollFailed(d) /\ PollCall(d)) =>
                 /\ last'.calls = last.calls
                 /\ last'.rc = "1" =>
                        \E c \in last.calls :
                            last'.frag = cuda_event_frag_array[d][c[2]]]_vars

\* a poll failed on the head of a pool that holds a second event, and that
\* event is complete
C34_Witness ==
    \E d \in Dirs : /\ PollFailed(d)
                    /\ cuda_event_num_used[d] = 2
                    /\ cuda_event_array[d][Bump(cuda_event_first_used[d])] = "complete"
                    /\ polled[d] = <<>>

(***************************************************************************)
(* Progress of the event pools (checked under SpecPoolLive).               *)
(***************************************************************************)
PoolEmpty(d) ==
    /\ cuda_event_num_used[d] = 0
    /\ cuda_event_first_avail[d] = cuda_event_first_used[d]

\* C35: when every recorded event completes in the end, cuEventQuery gives
\* no hard error and each pool is polled again and again, the k-th
\* descriptor recorded in a pool is eventually the k-th descriptor a poll of
\* that pool hands back, and a pool in which no further event is recorded
\* is eventually empty for good (num_used = 0, first_avail = first_used).
C35_RecordedIsEventuallyPolled ==
    \A d \in Dirs :
        /\ \A k \in 1..MaxRecords :
               (Len(recorded[d]) >= k)
                   ~> (Len(polled[d]) >= k /\ polled[d][k] = recorded[d][k])
        /\ \A n \in 0..MaxRecords :
               <>[](Len(recorded[d]) = n) => <>[]PoolEmpty(d)

\* two descriptors were recorded in a pool, both have been handed back and
\* the pool is empty again
C35_Witness ==
    \E d \in Dirs : /\ last.op = "progress_one"
                    /\ last.dir = d
                    /\ Len(recorded[d]) = 2
                    /\ polled[d] = recorded[d]
                    /\ PoolEmpty(d)

(***************************************************************************)
(* Recoverable and unrecoverable RDMA errors (checked under SpecRdma).     *)
(***************************************************************************)
\* C36: a completion with an error that GNI_CqErrorRecoverable reports as
\* not recoverable has the callback of the fragment called with a failure
\* status in the same step of progress_rdma and the fragment is not posted
\* again, whatever its number of tries; a recoverable error whose count of
\* tries, this failure included, is below rdma_max_retries has the fragment
\* posted again once, and no callback is called in that step.
C36_UnrecoverableFailsAtOnce ==
    [][RdmaCall =>
           LET f == ugni_call'.item
               b == ugni_call'.btl
           IN  /\ ugni_call'.event = "UNRECOVERABLE" =>
                      /\ callbacks' = [callbacks EXCEPT ![f] = Append(@, "ERROR")]
                      /\ ugni_call'.cb = "ERROR"
                      /\ ~ugni_call'.reposted
                      /\ frags'[f].state = "done"
                      /\ failed_frags' = failed_frags
               /\ (ugni_call'.event = "RECOVERABLE"
                      /\ frags[f].tries + 1 < rdma_max_retries) =>
                      /\ ugni_call'.reposted
                      /\ ugni_call'.cb = "none"
                      /\ callbacks' = callbacks
                      /\ frags'[f].tries = frags[f].tries + 1
                      /\ \/ frags'[f].state = "posted" /\ failed_frags' = failed_frags
                         \/ /\ frags'[f].state = "failed"
                            /\ failed_frags' = [failed_frags EXCEPT ![b] = Append(@, f)]]_vars

\* an error that is not recoverable ended a fragment at its first failure,
\* and another fragment was posted again after a recoverable error
C36_Witness ==
    /\ last.op = "progress_rdma"
    /\ ugni_call.event = "UNRECOVERABLE"
    /\ frags[ugni_call.item].tries = 1
    /\ callbacks[ugni_call.item] = <<"ERROR">>
    /\ \E g \in Frags : /\ g # ugni_call.item
                        /\ frags[g].tries = 1
                        /\ frags[g].state = "posted"
                        /\ callbacks[g] = <<>>

(***************************************************************************)
(* The wait_listed flag (checked under SpecWaitList).                      *)
(***************************************************************************)
\* C37: between the runs of the wait list stage, the flag wait_listed of an
\* endpoint is set exactly when the endpoint is on ep_wait_list of its
\* module.
C37_FlagIffOnWaitList ==
    \A b \in Btls : {e \in Eps : wait_listed[b][e]} = Range(ep_wait_list[b])

\* the wait list stage has attempted two endpoints: one is off the list with
\* its flag cleared, the other is on the list again with its flag set
C37_Witness ==
    /\ last.op = "progress_wait_list"
    /\ Len(ugni_call.item) = 2
    /\ \E e \in Eps, g \in Eps :
           /\ e # g
           /\ ~wait_listed[ugni_call.btl][e]
           /\ wait_listed[ugni_call.btl][g]
           /\ ep_wait_list[ugni_call.btl] = <<g>>

(***************************************************************************)
(* Progress on a component that is not initialized (checked under          *)
(* SpecInit).                                                              *)
(***************************************************************************)
\* the component was opened and mca_btl_ugni_component_init has not returned
\* its modules
NotYetInitialized == component.stage \in {"opened", "failed"}

\* C38: as long as the component is opened and mca_btl_ugni_component_init
\* has not returned with success (not called, or failed at any step),
\* ugni_num_btls is 0, so that mca_btl_ugni_component_progress visits no
\* module and returns 0; ugni_num_btls is above 0 only when modules is
\* allocated and every module counted is initialized.
C38_NoModuleCountedBeforeInitSucceeds ==
    /\ NotYetInitialized => component.ugni_num_btls = 0
    /\ component.ugni_num_btls > 0 =>
           /\ component.modules # "NULL"
           /\ ProgressLoopModules(component) \subseteq component.initialized
    /\ (NotYetInitialized /\ init_call.op = "component_progress") =>
           /\ init_call.base_modules = <<>>
           /\ init_call.rc = "0"

(***************************************************************************)
(* Repeated calls of mca_common_cuda_init (checked under SpecPool).        *)
(***************************************************************************)
\* an init call has set up the three event pools: events created, arrays
\* of descriptors allocated
PoolsSetUp ==
    \A d \in Dirs : \A i \in Slots :
        cuda_event_array[d][i] # "null" /\ cuda_event_frag_array[d][i] # Unalloc

\* C39: the set-up of mca_common_cuda_init runs at most once: an init call
\* made after an init call has set up the event pools, whether that call
\* returned success or failed at a later step, leaves num_used and the
\* cursors alone, creates no event and no array and registers no region
\* that is registered already; after a successful init a later call returns
\* success and changes no state.
C39_SetupRunsAtMostOnce ==
    [][(InitCall /\ PoolsSetUp) =>
           /\ pool_vars' = pool_vars
           /\ <<"cuEventCreate", 0>> \notin last'.calls
           /\ \A k \in (Len(hostRegisterCalls) + 1)..Len(hostRegisterCalls') :
                  hostRegisterCalls'[k].ptr \notin pinned
           /\ common_cuda_initialized =>
                  /\ last'.rc = "SUCCESS"
                  /\ last'.calls = {}
                  /\ UNCHANGED <<layer_vars, reg_vars, pool_vars, hist_vars>>]_vars

\* the part of it for calls made after a successful init
InitAfterSuccessIsNoOp ==
    [][(InitCall /\ common_cuda_initialized /\ ompi_mpi_cuda_support) =>
           /\ last'.rc = "SUCCESS"
           /\ last'.calls = {}
           /\ UNCHANGED <<layer_vars, reg_vars, pool_vars, hist_vars>>]_vars

(***************************************************************************)
(* The payload of a mailbox message (checked under SpecInit).              *)
(***************************************************************************)
InitSucceeded == InitReturned /\ init_call.rc = "base_modules"

\* C40: after a successful mca_btl_ugni_component_init, for every number of
\* ranks and every configured smsg_limit, smsg_max_data is ugni_smsg_limit
\* less the size of the header and is above 0, btl_eager_limit is not above
\* smsg_max_data, and btl_rdma_pipeline_send_length equals btl_eager_limit.
C40_EagerLimitFitsMailbox ==
    InitSucceeded =>
        /\ component.smsg_max_data = component.ugni_smsg_limit - SendFragHdrSize
        /\ component.smsg_max_data > 0
        /\ component.btl_eager_limit <= component.smsg_max_data
        /\ component.btl_rdma_pipeline_send_length = component.btl_eager_limit

\* the parts of it that hold for every configuration
PipelineFollowsEagerLimit ==
    InitSucceeded =>
        /\ component.smsg_max_data = component.ugni_smsg_limit - SendFragHdrSize
        /\ component.btl_rdma_pipeline_send_length = component.btl_eager_limit

\* with smsg_limit left at 0 the payload maximum is above 0, and the eager
\* limit fits it in a job of at most 512 ranks only
DefaultLimitFitsSmallJobs ==
    (InitSucceeded /\ init_call.smsg_limit = 0) =>
        /\ component.smsg_max_data > 0
        /\ init_call.nprocs <= 512 => component.btl_eager_limit = component.smsg_max_data
        /\ init_call.nprocs > 512 => component.btl_eager_limit > component.smsg_max_data

====
